---- MODULE Spec2Model ----
(***************************************************************************)
(* A model of the streaming middleware reader of the compiler              *)
(* (lib/compiler/src/translator/middleware.rs), of the registry source and *)
(* its query cache (lib/wasix/src/runtime/resolver/wapm_source.rs), of the *)
(* conversions at the JavaScript boundary (lib/api/src/js/as_js.rs), of    *)
(* the hashes of a binary package and its loading from a registry          *)
(* (lib/wasix/src/bin_factory/binary_package.rs), of the run command       *)
(* (lib/cli/src/commands/run.rs) and of the syscalls proc_spawn, sock_open,*)
(* sock_accept and thread_join (lib/wasix/src/syscalls/wasix/).            *)
(***************************************************************************)
EXTENDS Integers, Sequences, FiniteSets, TLC

(***************************************************************************)
(* Bounds of the model.                                                    *)
(***************************************************************************)
\* Longest operator section of a function body.
MaxOps == 3
\* Longest middleware chain.
MaxChain == 2
\* How many times a chain is installed when it may be replaced.
MaxInstalls == 2
\* Longest operator section of a body read while the chain may be replaced.
MaxOpsReplaced == 1
\* The latest time of the clock, in half seconds.
MaxClock == 4
\* Largest number of local declarations of a function body.
MaxDecls == 1
\* Most versions in a reply of the registry.
MaxVersions == 2

\* The operators of a body, the local declarations (count, type) of its
\* header, and the logical offset the reader is constructed at.
Operators == {"A", "B"}
Decls == {<<0, "I32">>, <<2, "F64">>}
OriginalOffsets == {5}

\* The stages a chain is built from: the default feed ("id"), a stage that
\* pushes its operator twice ("dup"), one that keeps the first operator of
\* each pair it is fed ("drop_second"), and one that passes the first of each
\* pair and aborts on the second ("fail_second").
StageKinds == {"id", "dup", "drop_second", "fail_second"}

VARIABLES
    data,                \* the bytes of the function body, as decoded tokens
    inner,               \* state.inner: the raw BinaryReader (its cursor)
    pending_operations,  \* state.pending_operations
    local_decls,         \* state.local_decls
    local_decls_read,    \* state.local_decls_read
    locals,              \* state.locals
    chain,               \* the chain: the kind of each stage
    stage,               \* each stage's own state (operators fed, modulo 2)
    gen,                 \* how many chains have been installed
    pc,                  \* where the caller is: "new", "locals", "ops", "done"
    out,                 \* what the read_operator calls returned, in order
    events               \* the calls made on the raw decoder and on the stages

mwvars == <<data, inner, pending_operations, local_decls, local_decls_read,
            locals, chain, stage, gen, pc, out, events>>

VARIABLES
    now,                 \* the system clock, in half seconds since the epoch
    files,               \* the cache directory: what each path holds
    timeout,             \* FileSystemCache.timeout, in half seconds
    written,             \* when each path was last written by update
    last                 \* the last call made on the cache itself, and what it returned

cachevars == <<now, files, timeout, written, last>>

VARIABLES
    cache,               \* WapmSource.cache: whether a cache is configured
    endpoint,            \* the registry endpoint: which replies it may give
    answer               \* the last query: its specifier, what it did, its result

queryvars == <<cache, endpoint, answer>>

VARIABLES
    proc,                \* the processes using one cache directory: where each
                         \* is in lookup_cached_query or update, and its locals
    durable              \* the files of the directory whose content is synced

procvars == <<proc, durable>>

VARIABLES
    js                   \* the last conversion at the JavaScript boundary: the
                         \* call, its arguments and what came of it

jsvars == <<js>>

VARIABLES
    binary_package,      \* a BinaryPackage: its fields and those of its commands
    sha256_calls,        \* how often ModuleHash::sha256 ran for each hash cell
    hashed               \* the hash calls made: on what, and what each returned

pkgvars == <<binary_package, sha256_calls, hashed>>

VARIABLES
    run                  \* the last call made in the run command, and its result

runvars == <<run>>

VARIABLES
    spawn                \* the last proc_spawn call and the state it left

spawnvars == <<spawn>>

VARIABLES
    loading              \* a call of BinaryPackage::from_registry: where it is,
                         \* the steps it has made and what it returned

loadvars == <<loading>>

VARIABLES
    sockets              \* the file system of a WasiState, the socket calls
                         \* made on it and what each returned

sockvars == <<sockets>>

VARIABLES
    threads              \* the threads of a process and the thread_join calls
                         \* in progress

threadvars == <<threads>>

\* The state of the package, of the run command and of the process syscalls.
latervars == <<pkgvars, runvars, spawnvars, loadvars, sockvars, threadvars>>

vars == <<mwvars, cachevars, queryvars, procvars, jsvars, latervars>>
\* What the actions of the reader, of the cache, of the source, of the
\* processes sharing a cache directory, and of the JavaScript boundary leave
\* alone.
notmw == <<cachevars, queryvars, procvars, jsvars, latervars>>
notcache == <<mwvars, queryvars, procvars, jsvars, latervars>>
notquery == <<mwvars, procvars, jsvars, latervars>>
notproc == <<mwvars, queryvars, jsvars, latervars>>
notjs == <<mwvars, cachevars, queryvars, procvars, latervars>>
earlier == <<mwvars, cachevars, queryvars, procvars, jsvars>>
sysvars == <<loadvars, sockvars, threadvars>>
notpkg == <<earlier, runvars, spawnvars, sysvars>>
notrun == <<earlier, pkgvars, spawnvars, sysvars>>
notspawn == <<earlier, pkgvars, runvars, sysvars>>
started == <<earlier, pkgvars, runvars, spawnvars>>
notload == <<started, sockvars, threadvars>>
notsock == <<started, loadvars, threadvars>>
notthread == <<started, loadvars, sockvars>>

(***************************************************************************)
(* The function body.                                                      *)
(***************************************************************************)
U32(n) == [k |-> "u32", n |-> n, s |-> ""]
Ty(t) == [k |-> "ty", n |-> 0, s |-> t]
Op(o) == [k |-> "op", n |-> 0, s |-> o]

\* The encoded width of an operator: "B" carries an immediate.
OpWidth(o) == IF o = "B" THEN 2 ELSE 1
Width(tok) == IF tok.k = "op" THEN OpWidth(tok.s) ELSE 1

SeqsUpTo(S, n) == UNION {[1..m -> S] : m \in 0..n}

RECURSIVE Flatten(_)
Flatten(ss) == IF ss = <<>> THEN <<>> ELSE Head(ss) \o Flatten(Tail(ss))

DeclTokens(d) == <<U32(d[1]), Ty(d[2])>>
HeaderTokens(ds) ==
    <<U32(Len(ds))>> \o Flatten([i \in 1..Len(ds) |-> DeclTokens(ds[i])])
OpTokens(os) == [i \in 1..Len(os) |-> Op(os[i])]

Headers == {HeaderTokens(ds) : ds \in SeqsUpTo(Decls, MaxDecls)}
\* A body is a header followed by operators, or a header cut short.
WellFormed == {h \o OpTokens(os) : h \in Headers, os \in SeqsUpTo(Operators, MaxOps)}
Truncated == UNION {{SubSeq(h, 1, n) : n \in 0..Len(h) - 1} : h \in Headers}
Bodies == WellFormed \cup Truncated

RECURSIVE SumWidth(_, _)
SumWidth(toks, n) == IF n = 0 THEN 0 ELSE SumWidth(toks, n - 1) + Width(toks[n])

(***************************************************************************)
(* The raw decoder (wasmparser::BinaryReader), as the reader uses it: a    *)
(* byte position in the body and the logical offset of the body.           *)
(***************************************************************************)
RawLen == SumWidth(data, Len(data))
\* The token that starts at byte p (Len(data) + 1 at the end of the body).
IdxAt(p) == CHOOSE i \in 1..Len(data) + 1 : SumWidth(data, i - 1) = p
RawEof(r) == r.position >= RawLen
RawNext(r) == data[IdxAt(r.position)]
RawAdvance(r) == [r EXCEPT !.position = @ + Width(RawNext(r))]

(***************************************************************************)
(* The record kept of each call on the raw decoder and on a stage.         *)
(***************************************************************************)
Event(t, j, by, cyc, at, o, n, err, ls) ==
    [t |-> t, stage |-> j, by |-> by, cyc |-> cyc, at |-> at, op |-> o,
     n |-> n, err |-> err, ls |-> ls, gen |-> gen]
HdrEvent(at) == Event("hdr", 0, 0, 0, at, "", 0, FALSE, <<>>)
RawEvent(at, o, n) == Event("raw", 0, 0, at, at, o, n, FALSE, <<>>)
FeedEvent(j, x, at, n, err) == Event("feed", j, x.by, x.cyc, at, x.op, n, err, <<>>)
InfoEvent(j, ls) == Event("info", j, 0, 0, 0, "", Len(ls), FALSE, ls)
RetEvent(x) == Event("ret", 0, x.by, x.cyc, 0, x.op, 0, FALSE, <<>>)
ErrEvent(e) == Event("ret", 0, 0, 0, 0, e, 0, TRUE, <<>>)

\* An operator in the pending queue, with the stage that pushed it (0: the
\* raw decoder) and the raw operator it was pushed for.
Pushed(o, by, cyc) == [op |-> o, by |-> by, cyc |-> cyc]

(***************************************************************************)
(* FunctionMiddleware::feed of each stage: the operators it pushes, its    *)
(* state afterwards, and whether it returns a MiddlewareError.             *)
(***************************************************************************)
StageFeed(kind, s, o) ==
    CASE kind = "id" -> [push |-> <<o>>, s |-> s, err |-> FALSE]
      [] kind = "dup" -> [push |-> <<o, o>>, s |-> s, err |-> FALSE]
      [] kind = "drop_second" ->
            [push |-> IF s = 0 THEN <<o>> ELSE <<>>, s |-> 1 - s, err |-> FALSE]
      [] kind = "fail_second" ->
            [push |-> IF s = 0 THEN <<o>> ELSE <<>>, s |-> 1 - s, err |-> s = 1]

\* MiddlewareReaderState::push_operator, for each operator a feed pushes.
push_operator(pend, os, j, cyc) ==
    pend \o [i \in 1..Len(os) |-> Pushed(os[i], j, cyc)]

(***************************************************************************)
(* read_operator, general path.                                            *)
(***************************************************************************)
\* The `?` on a feed: whether its result ends the call.
PropagatesNever(err) == FALSE
Propagates(err) == err

\* for pending_op in pending { stage.feed(pending_op, &mut self.state)?; }
RECURSIVE FeedDrained(_, _, _, _, _, _, _, _)
FeedDrained(j, kind, s, drained, i, pend, ev, at) ==
    IF i > Len(drained)
    THEN [pending |-> pend, s |-> s, err |-> FALSE, ev |-> ev]
    ELSE LET r == StageFeed(kind, s, drained[i].op)
             e == FeedEvent(j, drained[i], at, Len(r.push), r.err)
         IN  IF Propagates(r.err)
             THEN [pending |-> pend, s |-> r.s, err |-> TRUE, ev |-> Append(ev, e)]
             ELSE FeedDrained(j, kind, r.s, drained, i + 1,
                              push_operator(pend, r.push, j, at), Append(ev, e), at)

\* The order in which `for stage in &mut self.chain` visits n stages.
StageOrderReversed(n) == [k \in 1..n |-> n + 1 - k]
StageOrder(n) == [k \in 1..n |-> k]

\* What pending_operations.drain(0..) leaves in the queue.
AfterDrainKept(pend) == pend
AfterDrain(pend) == <<>>

\* for stage in &mut self.chain { drain the queue, feed what was drained }
RECURSIVE RunChain(_, _, _, _, _)
RunChain(k, st, pend, ev, at) ==
    IF k > Len(chain)
    THEN [pending |-> pend, stage |-> st, err |-> FALSE, ev |-> ev]
    ELSE LET j == StageOrder(Len(chain))[k]
             r == FeedDrained(j, chain[j], st[j], pend, 1, AfterDrain(pend), ev, at)
             st2 == [st EXCEPT ![j] = r.s]
         IN  IF r.err
             THEN [pending |-> r.pending, stage |-> st2, err |-> TRUE, ev |-> r.ev]
             ELSE RunChain(k + 1, st2, r.pending, r.ev, at)

\* self.state.pending_operations.push_back(raw_op)
QueueRawDropped(pend, x) == pend
QueueRaw(pend, x) == Append(pend, x)

\* What pending_operations.pop_front() leaves in the queue.
AfterPopCleared(pend) == <<>>
AfterPop(pend) == Tail(pend)

\* The condition of the loop that fills the pending queue.
NeedsFillAhead(pend) == Len(pend) < 2
NeedsFill(pend) == pend = <<>>

\* while self.state.pending_operations.is_empty() { read, push, run the chain }
RECURSIVE Fill(_, _, _, _)
Fill(r, st, pend, ev) ==
    IF ~NeedsFill(pend)
    THEN [inner |-> r, stage |-> st, pending |-> pend, ev |-> ev, res |-> "ok"]
    ELSE IF RawEof(r)
    THEN [inner |-> r, stage |-> st, pending |-> pend, ev |-> ev, res |-> "eof"]
    ELSE LET at == IdxAt(r.position)
             o == RawNext(r).s
             c == RunChain(1, st, QueueRaw(pend, Pushed(o, 0, at)),
                           Append(ev, RawEvent(at, o, Len(pend))), at)
         IN  IF c.err
             THEN [inner |-> RawAdvance(r), stage |-> c.stage,
                   pending |-> c.pending, ev |-> c.ev, res |-> "mw"]
             ELSE Fill(RawAdvance(r), c.stage, c.pending, c.ev)

\* What a call of read_operator returns.
Ok(o) == [ok |-> TRUE, v |-> o]
Err(e) == [ok |-> FALSE, v |-> e]

(***************************************************************************)
(* MiddlewareBinaryReader.                                                 *)
(***************************************************************************)
Chains == SeqsUpTo(StageKinds, MaxChain)

\* new_with_offset: an empty chain, an empty queue, no locals.
New(body, offset) ==
    /\ data = body
    /\ inner = [position |-> 0, original_offset |-> offset]
    /\ pending_operations = <<>>
    /\ local_decls = 0
    /\ local_decls_read = 0
    /\ locals = <<>>
    /\ chain = <<>>
    /\ stage = <<>>
    /\ gen = 0
    /\ pc = "count"
    /\ out = <<>>
    /\ events = <<>>

\* No cache is in use.
CacheIdle ==
    /\ now = 0
    /\ files = <<>>
    /\ timeout = 0
    /\ written = <<>>
    /\ last = <<>>

\* No source is in use.
QueryIdle ==
    /\ cache = FALSE
    /\ endpoint = "none"
    /\ answer = <<>>

\* No package is loaded, nothing is run and no process is spawned.
PkgIdle ==
    /\ binary_package = <<>>
    /\ sha256_calls = <<>>
    /\ hashed = <<>>

RunIdle == run = <<>>

SpawnIdle == spawn = <<>>

LoadIdle == loading = <<>>

SockIdle == sockets = <<>>

ThreadIdle == threads = <<>>

SysIdle == LoadIdle /\ SockIdle /\ ThreadIdle

LaterIdle == PkgIdle /\ RunIdle /\ SpawnIdle /\ SysIdle

\* No cache directory is shared, and nothing is converted.
ProcIdle ==
    /\ proc = <<>>
    /\ durable = {}
    /\ js = <<>>

Init ==
    /\ \E body \in Bodies, offset \in OriginalOffsets : New(body, offset)
    /\ CacheIdle
    /\ QueryIdle
    /\ LaterIdle
    /\ ProcIdle

\* set_middleware_chain(stages): the stages are new objects.
set_middleware_chain(stages) ==
    /\ chain' = stages
    /\ stage' = [j \in 1..Len(stages) |-> 0]
    /\ gen' = gen + 1
    /\ UNCHANGED <<data, inner, pending_operations, local_decls,
                   local_decls_read, locals, pc, out, events>>
    /\ UNCHANGED notmw

\* The compiler installs the chain right after it constructs the reader.
SetChain ==
    /\ pc = "count"
    /\ gen = 0
    /\ \E stages \in Chains : set_middleware_chain(stages)

\* emit_locals_info: one locals_info call on each stage of the chain.
emit_locals_info(ls) == [j \in 1..Len(chain) |-> InfoEvent(j, ls)]

\* Whether read_local_count, having read `total`, passes the locals on.
CountEmits(total) == total = 0

read_local_count ==
    /\ pc = "count"
    /\ IF RawEof(inner)
       THEN /\ pc' = "done"
            /\ UNCHANGED <<inner, local_decls, events>>
       ELSE LET total == RawNext(inner).n
                ev == Append(events, HdrEvent(IdxAt(inner.position)))
            IN  /\ inner' = RawAdvance(inner)
                /\ local_decls' = total
                /\ events' = IF CountEmits(total)
                             THEN ev \o emit_locals_info(locals)
                             ELSE ev
                /\ pc' = IF total = 0 THEN "ops" ELSE "decls"
    /\ UNCHANGED <<data, pending_operations, local_decls_read, locals, chain,
                   stage, gen, out>>
    /\ UNCHANGED notmw

\* Whether read_local_decl, having read `n` declarations, passes the locals on.
DeclEmits(n) == n = local_decls

\* for _ in 0..count { self.state.locals.push(ty); }
push_once(ls, count, ty) == Append(ls, ty)
push(ls, count, ty) == ls \o [i \in 1..count |-> ty]

read_local_decl ==
    /\ pc = "decls"
    /\ IF RawEof(inner)
       THEN /\ pc' = "done"
            /\ UNCHANGED <<inner, local_decls_read, locals, events>>
       ELSE IF RawEof(RawAdvance(inner))
       THEN /\ inner' = RawAdvance(inner)
            /\ events' = Append(events, HdrEvent(IdxAt(inner.position)))
            /\ pc' = "done"
            /\ UNCHANGED <<local_decls_read, locals>>
       ELSE LET count == RawNext(inner).n
                ty == RawNext(RawAdvance(inner)).s
                ls == push(locals, count, ty)
                ev == events \o <<HdrEvent(IdxAt(inner.position)),
                                  HdrEvent(IdxAt(inner.position) + 1)>>
            IN  /\ inner' = RawAdvance(RawAdvance(inner))
                /\ locals' = ls
                /\ local_decls_read' = local_decls_read + 1
                /\ events' = IF DeclEmits(local_decls_read + 1)
                             THEN ev \o emit_locals_info(ls)
                             ELSE ev
                /\ pc' = IF local_decls_read + 1 = local_decls
                         THEN "ops" ELSE "decls"
    /\ UNCHANGED <<data, pending_operations, local_decls, chain, stage, gen, out>>
    /\ UNCHANGED notmw

\* read_operator with an empty chain: the raw decoder's own answer.
read_operator_direct_skip ==
    /\ chain = <<>>
    /\ IF RawEof(inner)
       THEN /\ out' = Append(out, Err("eof"))
            /\ events' = Append(events, ErrEvent("eof"))
            /\ pc' = "done"
            /\ UNCHANGED inner
       ELSE LET skipped == IF RawEof(RawAdvance(inner)) THEN inner ELSE RawAdvance(inner)
                at == IdxAt(skipped.position)
                o == RawNext(skipped).s
            IN  /\ out' = Append(out, Ok(o))
                /\ inner' = RawAdvance(skipped)
                /\ events' = events \o <<RawEvent(at, o, 0), RetEvent(Pushed(o, 0, at))>>
                /\ pc' = pc
    /\ UNCHANGED <<pending_operations, stage>>
read_operator_direct ==
    /\ chain = <<>>
    /\ IF RawEof(inner)
       THEN /\ out' = Append(out, Err("eof"))
            /\ events' = Append(events, ErrEvent("eof"))
            /\ pc' = "done"
            /\ UNCHANGED inner
       ELSE LET at == IdxAt(inner.position)
                o == RawNext(inner).s
            IN  /\ out' = Append(out, Ok(o))
                /\ inner' = RawAdvance(inner)
                /\ events' = events \o <<RawEvent(at, o, 0), RetEvent(Pushed(o, 0, at))>>
                /\ pc' = pc
    /\ UNCHANGED <<pending_operations, stage>>

\* read_operator with a chain: fill the queue, then pop its front.
read_operator_chain ==
    /\ chain # <<>>
    /\ LET f == Fill(inner, stage, pending_operations, events)
       IN  /\ inner' = f.inner
           /\ stage' = f.stage
           /\ IF f.res = "ok"
              THEN /\ out' = Append(out, Ok(Head(f.pending).op))
                   /\ pending_operations' = AfterPop(f.pending)
                   /\ events' = Append(f.ev, RetEvent(Head(f.pending)))
                   /\ pc' = pc
              ELSE /\ out' = Append(out, Err(f.res))
                   /\ pending_operations' = f.pending
                   /\ events' = Append(f.ev, ErrEvent(f.res))
                   /\ pc' = IF f.res = "eof" THEN "done" ELSE pc

read_operator ==
    /\ pc = "ops"
    /\ IF chain = <<>> THEN read_operator_direct ELSE read_operator_chain
    /\ UNCHANGED <<data, local_decls, local_decls_read, locals, chain, gen>>
    /\ UNCHANGED notmw

\* The positional accessors.
current_position_yielded == inner.position - Len(pending_operations)
current_position == inner.position
original_position == inner.original_offset + inner.position
bytes_remaining == RawLen - inner.position
eof == inner.position >= RawLen
range == <<inner.original_offset, inner.original_offset + RawLen>>

Next ==
    \/ SetChain
    \/ read_local_count
    \/ read_local_decl
    \/ read_operator

Spec == Init /\ [][Next]_vars

\* The reader used with its chain replaced at any time.
SetChainAnyTime ==
    /\ pc # "done"
    /\ gen < MaxInstalls
    /\ \E stages \in Chains : set_middleware_chain(stages)

BodiesReplaced ==
    {h \o OpTokens(os) : h \in Headers, os \in SeqsUpTo(Operators, MaxOpsReplaced)}

InitAnyOrder ==
    /\ \E body \in BodiesReplaced, offset \in OriginalOffsets : New(body, offset)
    /\ CacheIdle
    /\ QueryIdle
    /\ LaterIdle
    /\ ProcIdle

NextAnyOrder ==
    \/ SetChainAnyTime
    \/ read_local_count
    \/ read_local_decl
    \/ read_operator

SpecAnyOrder == InitAnyOrder /\ [][NextAnyOrder]_vars

\* The reader on bodies with several local declarations, of which the order
\* shows in the locals.
MaxDeclsInOrder == 2
DeclsInOrder == {<<0, "I32">>, <<1, "I32">>, <<2, "F64">>}
BodiesInOrder ==
    {HeaderTokens(ds) \o OpTokens(os) :
       ds \in SeqsUpTo(DeclsInOrder, MaxDeclsInOrder), os \in SeqsUpTo(Operators, 1)}

InitInOrder ==
    /\ \E body \in BodiesInOrder, offset \in OriginalOffsets : New(body, offset)
    /\ CacheIdle
    /\ QueryIdle
    /\ LaterIdle
    /\ ProcIdle

SpecInOrder == InitInOrder /\ [][Next]_vars

\* The reader used with a chain of three stages, the second of which may
\* abort after the first has pushed two operators.
LongChains == {<<"dup", "fail_second", "id">>, <<"dup", "fail_second", "dup">>,
               <<"id", "dup", "fail_second">>}

SetLongChain ==
    /\ pc = "count"
    /\ gen = 0
    /\ \E stages \in LongChains : set_middleware_chain(stages)

NextLongChain ==
    \/ SetLongChain
    \/ read_local_count
    \/ read_local_decl
    \/ read_operator

SpecLongChain == Init /\ [][NextLongChain]_vars

(***************************************************************************)
(* FileSystemCache: the query cache of WapmSource, one file per package.   *)
(***************************************************************************)
\* Two package names that the file system takes for one file (a file system
\* that ignores case), the responses of the registry, and the timeouts a
\* cache is built with (half a second, a second).
PackageNames == {"p", "P"}
Responses == {"r1", "r2"}
Timeouts == {1, 2}

\* FileSystemCache::path, as the file system resolves it.
path(package_name) == IF package_name = "P" THEN "p" ELSE package_name
Paths == {path(n) : n \in PackageNames}

\* What a path holds: nothing, a file that cannot be read, a file that is
\* no CacheEntry, or a CacheEntry.
File(kind, ts, name, response) ==
    [kind |-> kind, unix_timestamp |-> ts, package_name |-> name, response |-> response]
NoFile == File("none", 0, "", "")
Unreadable == File("unreadable", 0, "", "")
Garbage == File("garbage", 0, "", "")

\* Duration::as_secs and Duration::from_secs, on half seconds.
as_secs(t) == t \div 2
from_secs(n) == n * 2

\* Whether `duration`, the age of an entry, is within the timeout.
WithinStrict(duration, limit) == duration < limit
Within(duration, limit) == duration <= limit

\* CacheEntry::is_still_valid: elapsed() fails for a timestamp later than now.
is_still_valid(entry, limit) ==
    LET timestamp == from_secs(entry.unix_timestamp)
    IN  IF now >= timestamp THEN Within(now - timestamp, limit) ELSE FALSE

CacheCall(op, name, res, response, before) ==
    [op |-> op, name |-> name, now |-> now, res |-> res, response |-> response,
     before |-> before, written |-> written[path(name)]]

CacheInit ==
    /\ now \in 0..1
    /\ files \in [Paths -> {NoFile, Unreadable, Garbage}]
    /\ timeout \in Timeouts
    /\ written = [f \in Paths |-> -1]
    /\ last = [op |-> "none", name |-> "", now |-> 0, res |-> "", response |-> "",
               before |-> NoFile, written |-> -1]
    /\ New(<<>>, 0)
    /\ QueryIdle
    /\ LaterIdle
    /\ ProcIdle

\* What lookup_cached_query(package_name) returns and how it leaves the
\* cache directory: a missing file is a miss; an unreadable one an error; a
\* file that is no entry is removed and is an error; a stale entry is removed
\* and is a miss; an entry of another package is removed and is an error.
Looked(res, response, fs) == [res |-> res, response |-> response, files |-> fs]
Judged(res, response, remove) == [res |-> res, response |-> response, remove |-> remove]
\* What lookup_cached_query makes of what it read at the path.
judged(entry, package_name) ==
    IF entry.kind = "none" THEN Judged("miss", "", FALSE)
    ELSE IF entry.kind = "unreadable" THEN Judged("err", "", FALSE)
    ELSE IF entry.kind # "entry" THEN Judged("err", "", TRUE)
    ELSE IF ~is_still_valid(entry, timeout) THEN Judged("miss", "", TRUE)
    ELSE IF entry.package_name # package_name THEN Judged("err", "", TRUE)
    ELSE Judged("hit", entry.response, FALSE)
\* std::fs::remove_file(&filename)
remove_file_kept(fs, filename) == fs
remove_file(fs, filename) == [fs EXCEPT ![filename] = NoFile]

cached_query(package_name) ==
    LET filename == path(package_name)
        found == judged(files[filename], package_name)
    IN  Looked(found.res, found.response,
               IF found.remove THEN remove_file(files, filename) ELSE files)

\* lookup_cached_query(package_name)
lookup_cached_query(package_name) ==
    LET looked == cached_query(package_name)
    IN  /\ last' = CacheCall("lookup", package_name, looked.res, looked.response,
                             files[path(package_name)])
        /\ files' = looked.files
        /\ UNCHANGED <<now, timeout, written>>
        /\ UNCHANGED notcache

Lookup == \E package_name \in PackageNames : lookup_cached_query(package_name)

\* The entry update writes: its timestamp is the clock in whole seconds.
CacheEntry(package_name, response) ==
    File("entry", as_secs(now), package_name, response)

\* update(package_name, response): the entry replaces the file, unless the
\* temporary file cannot be created, written, synced or renamed.
update(package_name, response, saved) ==
    LET filename == path(package_name)
        entry == CacheEntry(package_name, response)
    IN  /\ IF saved
           THEN /\ files' = [files EXCEPT ![filename] = entry]
                /\ written' = [written EXCEPT ![filename] = now]
                /\ last' = CacheCall("update", package_name, "ok", response, files[filename])
           ELSE /\ UNCHANGED <<files, written>>
                /\ last' = CacheCall("update", package_name, "err", response, files[filename])
        /\ UNCHANGED <<now, timeout>>
        /\ UNCHANGED notcache

Update ==
    \E package_name \in PackageNames, response \in Responses, saved \in BOOLEAN :
        update(package_name, response, saved)

\* Time passes.
Tick ==
    /\ now < MaxClock
    /\ now' = now + 1
    /\ UNCHANGED <<files, timeout, written, last>>
    /\ UNCHANGED notcache

\* The system clock is set back.
ClockSetBack ==
    /\ \E t \in 0..now - 1 : now' = t
    /\ UNCHANGED <<files, timeout, written, last>>
    /\ UNCHANGED notcache

CacheNext ==
    \/ Lookup
    \/ Update
    \/ Tick
    \/ ClockSetBack

SpecCache == CacheInit /\ [][CacheNext]_vars

(***************************************************************************)
(* One cache directory shared by processes, each of which is in            *)
(* lookup_cached_query or in update, a file-system call at a time.         *)
(***************************************************************************)
Procs == {"a", "b"}

\* The temporary file of a process: NamedTempFile::new_in(&self.cache_dir)
\* makes a file of a fresh name in the cache directory.
new_at(p, filename) == filename
new_in(p, filename) == IF p = "a" THEN ".tmpA" ELSE ".tmpB"
Names == Paths \cup {new_in(p, f) : p \in Procs, f \in Paths}

\* A file as it is being written: created and empty, or holding the first
\* part of the entry.
Empty == File("empty", 0, "", "")
Part(entry) == File("part", entry.unix_timestamp, entry.package_name, entry.response)

\* Where a process is, what it was called with, the temporary file and the
\* entry of update, what lookup_cached_query read, and what the last call
\* returned.
Process(at, package_name, response, temp, entry, json, res) ==
    [pc |-> at, package_name |-> package_name, response |-> response,
     temp |-> temp, entry |-> entry, json |-> json, res |-> res]
Idle(res) == Process("idle", "", "", "", NoFile, NoFile, res)

SharedInit ==
    /\ now \in 0..MaxClock
    /\ timeout \in Timeouts
    /\ \E old \in {NoFile} \cup {File("entry", 0, n, "r1") : n \in PackageNames} :
          /\ files = [f \in Names |-> IF f \in Paths THEN old ELSE NoFile]
          /\ durable = IF old = NoFile THEN {} ELSE Paths
    /\ proc = [p \in Procs |-> Idle("none")]
    /\ written = <<>>
    /\ last = <<>>
    /\ New(<<>>, 0)
    /\ QueryIdle
    /\ LaterIdle
    /\ js = <<>>

\* lookup_cached_query, line 253: std::fs::read(&filename).
lookup_read(p, package_name) ==
    /\ proc[p].pc = "idle"
    /\ proc' = [proc EXCEPT ![p] =
                   Process("read", package_name, "", "", NoFile,
                           files[path(package_name)], "")]
    /\ UNCHANGED <<files, durable>>

\* lookup_cached_query, lines 266-293: what was read is judged, the file at
\* the path is removed if it is no entry, stale, or of another package.
lookup_return(p) ==
    /\ proc[p].pc = "read"
    /\ LET filename == path(proc[p].package_name)
           found == judged(proc[p].json, proc[p].package_name)
       IN  /\ files' = IF found.remove THEN [files EXCEPT ![filename] = NoFile]
                       ELSE files
           /\ durable' = IF found.remove THEN durable \ {filename} ELSE durable
           /\ proc' = [proc EXCEPT ![p] = Idle(found.res)]

\* update, lines 297-310: the entry is made, and the temporary file created.
update_create(p, package_name, response) ==
    /\ proc[p].pc = "idle"
    /\ LET temp == new_in(p, path(package_name))
       IN  /\ files' = [files EXCEPT ![temp] = Empty]
           /\ durable' = durable \ {temp}
           /\ proc' = [proc EXCEPT ![p] =
                          Process("created", package_name, response, temp,
                                  CacheEntry(package_name, response), NoFile, "")]

\* update, line 311: to_writer_pretty writes the entry, a part at a time.
update_write(p) ==
    /\ proc[p].pc \in {"created", "part"}
    /\ IF proc[p].pc = "created"
       THEN /\ files' = [files EXCEPT ![proc[p].temp] = Part(proc[p].entry)]
            /\ proc' = [proc EXCEPT ![p].pc = "part"]
       ELSE /\ files' = [files EXCEPT ![proc[p].temp] = proc[p].entry]
            /\ proc' = [proc EXCEPT ![p].pc = "written"]
    /\ durable' = durable \ {proc[p].temp}

\* update, lines 313-315: sync_all.
update_sync(p) ==
    /\ proc[p].pc = "written"
    /\ durable' = durable \cup {proc[p].temp}
    /\ proc' = [proc EXCEPT ![p].pc = "synced"]
    /\ UNCHANGED files

\* update, lines 320-337: persist renames the temporary file onto the path.
update_persist(p) ==
    /\ proc[p].pc = "synced"
    /\ LET temp == proc[p].temp
           filename == path(proc[p].package_name)
       IN  /\ files' = [[files EXCEPT ![temp] = NoFile] EXCEPT ![filename] = files[temp]]
           /\ durable' = IF temp \in durable
                         THEN (durable \ {temp}) \cup {filename}
                         ELSE durable \ {temp, filename}
    /\ proc' = [proc EXCEPT ![p] = Idle("ok")]

\* update: a call on the temporary file fails, update returns the error and
\* the NamedTempFile, dropped, removes its file.
update_fails(p) ==
    /\ proc[p].pc \in {"created", "part", "written", "synced"}
    /\ files' = [files EXCEPT ![proc[p].temp] = NoFile]
    /\ durable' = durable \ {proc[p].temp}
    /\ proc' = [proc EXCEPT ![p] = Idle("err")]

SharedNext ==
    /\ \E p \in Procs :
          \/ \E package_name \in PackageNames : lookup_read(p, package_name)
          \/ lookup_return(p)
          \/ \E package_name \in PackageNames, response \in Responses :
                update_create(p, package_name, response)
          \/ update_write(p)
          \/ update_sync(p)
          \/ update_persist(p)
          \/ update_fails(p)
    /\ UNCHANGED <<now, timeout, written, last>>
    /\ UNCHANGED notproc

SpecShared == SharedInit /\ [][SharedNext]_vars

(***************************************************************************)
(* WapmSource: the registry source, its GraphQL request and its filter.    *)
(***************************************************************************)
\* What a query asks for: a package of the registry by name and version
\* constraint, or something else (a URL or a path).
Constraints == {"*", "^1"}
Specifier(kind, full_name, version) ==
    [kind |-> kind, full_name |-> full_name, version |-> version]
Specifiers ==
    {Specifier("Registry", n, c) : n \in PackageNames, c \in Constraints}
        \cup {Specifier("Url", "", "")}

\* semver::Version::parse and VersionReq::matches, on the version strings of
\* the model.
Version_parse(s) ==
    IF s = "1.0.0" THEN Ok(<<1, 0, 0>>)
    ELSE IF s = "2.0.0" THEN Ok(<<2, 0, 0>>)
    ELSE Err(<<>>)
matches(version_constraint, version) ==
    version_constraint = "*" \/ (version_constraint = "^1" /\ version[1] = 1)

\* A version of the "versions" array of a reply's JSON body. A key that is
\* absent is "missing"; "bad" is a string that does not parse as what it
\* should be (a manifest, a URL, a hash); "x" is no semver.
Entry(v, a, m, d, u, h) ==
    [version |-> v, isArchived |-> a, piritaManifest |-> m, distribution |-> d,
     piritaDownloadUrl |-> u, piritaSha256Hash |-> h]
SoundEntries ==
    {Entry(v, a, m, "object", "u", "h") :
        v \in {"1.0.0", "2.0.0", "x"}, a \in {"true", "false", "missing"},
        m \in {"m1", "m2"}}
FlawedEntries ==
    UNION {{Entry("1.0.0", a, "null", "object", "u", "h"),
            Entry("1.0.0", a, "bad", "object", "u", "h"),
            Entry("1.0.0", a, "m1", "object", "null", "h"),
            Entry("1.0.0", a, "m1", "object", "bad", "h"),
            Entry("1.0.0", a, "m1", "object", "u", "null"),
            Entry("1.0.0", a, "m1", "object", "u", "bad"),
            Entry("1.0.0", a, "m1", "missing", "null", "null"),
            Entry("missing", a, "m1", "object", "u", "h")} : a \in {"true", "false"}}
Entries == SoundEntries \cup FlawedEntries

\* The body of a reply: no body, bytes that are no JSON of the expected
\* shape, or {"data": {"getPackage": null or {"versions": [...]}}}.
Payload(json, getPackage, versions) ==
    [json |-> json, getPackage |-> getPackage, versions |-> versions]
NoBody == Payload("none", "null", <<>>)
Garbled == Payload("garbage", "null", <<>>)
NoPackage == Payload("object", "null", <<>>)
Package(versions) == Payload("object", "object", versions)

\* What the HTTP client gives for a request: an error, or a response with a
\* status and a body.
Reply(sent, status, body) == [sent |-> sent, status |-> status, body |-> body]
NoReply == Reply(FALSE, 0, NoBody)
TransportError == Reply(TRUE, 0, NoBody)
Status(status, body) == Reply(TRUE, status, body)
Replies(bodies) ==
    {TransportError, Status(500, NoBody)}
        \cup {Status(200, b) : b \in bodies \cup {Garbled, NoPackage}}

\* WapmWebQuery, as serde derives its deserialization: version and
\* distribution are required, isArchived defaults to false, the Option
\* fields are None when null or absent.
WapmWebQuery(get_package, versions) ==
    [get_package |-> get_package, versions |-> versions]
NoResponse == WapmWebQuery("None", <<>>)
WapmWebQueryGetPackageVersion(e) ==
    [version |-> e.version, is_archived |-> (e.isArchived = "true"),
     manifest |-> e.piritaManifest,
     pirita_download_url |-> e.piritaDownloadUrl,
     pirita_sha256_hash |-> e.piritaSha256Hash]
Deserializable(e) == e.version # "missing" /\ e.distribution # "missing"
from_slice(body) ==
    IF body.json # "object" THEN Err(NoResponse)
    ELSE IF body.getPackage = "null" THEN Ok(WapmWebQuery("None", <<>>))
    ELSE IF \E i \in 1..Len(body.versions) : ~Deserializable(body.versions[i])
    THEN Err(NoResponse)
    ELSE Ok(WapmWebQuery("Some",
            [i \in 1..Len(body.versions) |->
                WapmWebQueryGetPackageVersion(body.versions[i])]))

\* HttpResponse::is_ok.
is_ok(response) == response.status \div 100 = 2

\* Whether query_graphql gives up on the response it received.
BailsNever(response) == FALSE
Bails(response) == ~is_ok(response)

\* query_graphql, given what the client gives for the request: the response
\* deserialized, or an error (the request failed, the registry replied with
\* another status, or the body does not deserialize).
query_graphql(reply) ==
    IF reply.status = 0 THEN Err(NoResponse)
    ELSE IF Bails(reply) THEN Err(NoResponse)
    ELSE from_slice(reply.body)

\* Whether lookup_package answers with what the cache lookup returned.
HitNever(looked) == FALSE
Hit(looked) == looked.res = "hit"

\* What lookup_package returns once the cache update has been attempted.
AfterUpdateSaved(response, updated) ==
    IF updated = "err" THEN Err(NoResponse) ELSE response
AfterUpdate(response, updated) == response

\* The `?` on query_graphql: whether its result ends lookup_package.
FailedNever(response) == FALSE
Failed(response) == ~response.ok

\* lookup_package(package_name): what the cache lookup gave ("none" without
\* a cache), the reply to the request if one was sent, what the cache update
\* gave ("none" if there was none), the result, and the cache directory
\* afterwards. `saved` tells whether an update that is attempted succeeds.
LookedUp(looked, reply, updated, response, fs, wr) ==
    [looked |-> looked, reply |-> reply, updated |-> updated,
     response |-> response, files |-> fs, written |-> wr]
lookup_package(package_name, reply, saved) ==
    LET looked == IF cache THEN cached_query(package_name)
                  ELSE Looked("none", "", files)
        response == query_graphql(reply)
        filename == path(package_name)
    IN  IF Hit(looked)
        THEN LookedUp("hit", NoReply, "none", Ok(looked.response), looked.files, written)
        ELSE IF Failed(response)
        THEN LookedUp(looked.res, reply, "none", response, looked.files, written)
        ELSE IF ~cache
        THEN LookedUp(looked.res, reply, "none", response, looked.files, written)
        ELSE IF saved
        THEN LookedUp(looked.res, reply, "ok", AfterUpdate(response, "ok"),
                      [looked.files EXCEPT
                          ![filename] = CacheEntry(package_name, response.v)],
                      [written EXCEPT ![filename] = now])
        ELSE LookedUp(looked.res, reply, "err", AfterUpdate(response, "err"),
                      looked.files, written)

\* decode_summary(pkg_version)
PackageSummary(pkg, webc, webc_sha256) ==
    [pkg |-> pkg, webc |-> webc, webc_sha256 |-> webc_sha256]
NoSummary == PackageSummary("", "", "")
decode_summary(pkg_version) ==
    IF pkg_version.manifest = "null" THEN Err(NoSummary)
    ELSE IF pkg_version.pirita_sha256_hash = "null" THEN Err(NoSummary)
    ELSE IF pkg_version.pirita_download_url = "null" THEN Err(NoSummary)
    ELSE IF pkg_version.manifest = "bad" THEN Err(NoSummary)
    ELSE IF pkg_version.pirita_sha256_hash = "bad" THEN Err(NoSummary)
    ELSE IF pkg_version.pirita_download_url = "bad" THEN Err(NoSummary)
    ELSE Ok(PackageSummary(pkg_version.manifest, pkg_version.pirita_download_url,
                           pkg_version.pirita_sha256_hash))

\* What query returns: the summaries, or a QueryError.
Result(kind, summaries, archived_versions) ==
    [kind |-> kind, summaries |-> summaries, archived_versions |-> archived_versions]

\* From<anyhow::Error> for QueryError, used by `?` on lookup_package.
from_error(error) == Result("Registry", <<>>, <<>>)

\* Whether the loop of query sets a version aside as archived.
SkipsNone(pkg_version) == FALSE
Skips(pkg_version) == pkg_version.is_archived

\* archived_versions.push(version)
archive_first(archived_versions, version) == <<version>> \o archived_versions
archive(archived_versions, version) == Append(archived_versions, version)

\* The loop of query over the versions of the response.
RECURSIVE Visit(_, _, _, _)
Visit(versions, version_constraint, summaries, archived_versions) ==
    IF versions = <<>>
    THEN [summaries |-> summaries, archived_versions |-> archived_versions]
    ELSE LET pkg_version == Head(versions)
             version == Version_parse(pkg_version.version)
             summary == decode_summary(pkg_version)
         IN  IF ~version.ok
             THEN Visit(Tail(versions), version_constraint, summaries,
                        archived_versions)
             ELSE IF Skips(pkg_version)
             THEN Visit(Tail(versions), version_constraint, summaries,
                        archive(archived_versions, version.v))
             ELSE IF matches(version_constraint, version.v) /\ summary.ok
             THEN Visit(Tail(versions), version_constraint,
                        Append(summaries, summary.v), archived_versions)
             ELSE Visit(Tail(versions), version_constraint, summaries,
                        archived_versions)

\* What query returns when the loop is over.
AlwaysOk(summaries, archived_versions) == Result("Ok", summaries, <<>>)
Outcome(summaries, archived_versions) ==
    IF summaries = <<>>
    THEN Result("NoMatches", <<>>, archived_versions)
    ELSE Result("Ok", summaries, <<>>)

\* What query makes of the response lookup_package returned.
Summaries(response, version_constraint) ==
    IF ~response.ok THEN from_error(response)
    ELSE IF response.v.get_package = "None" THEN Result("NotFound", <<>>, <<>>)
    ELSE LET seen == Visit(response.v.versions, version_constraint, <<>>, <<>>)
         IN  Outcome(seen.summaries, seen.archived_versions)

\* A call of query: when it was made, what it asked, what lookup_package did
\* and what it returned.
Answer(package, at, looked, reply, updated, response, result) ==
    [package |-> package, now |-> at, looked |-> looked, reply |-> reply,
     updated |-> updated, response |-> response, result |-> result]
NoAnswer ==
    Answer(Specifier("none", "", ""), 0, "none", NoReply, "none", Err(NoResponse),
           Result("none", <<>>, <<>>))

\* query(package)
query(package, reply, saved) ==
    /\ IF package.kind # "Registry"
       THEN /\ answer' = Answer(package, now, "none", NoReply, "none",
                                Err(NoResponse), Result("Unsupported", <<>>, <<>>))
            /\ UNCHANGED <<files, written>>
       ELSE LET full_name == package.full_name
                r == lookup_package(full_name, reply, saved)
            IN  /\ answer' = Answer(package, now, r.looked, r.reply, r.updated,
                                    r.response, Summaries(r.response, package.version))
                /\ files' = r.files
                /\ written' = r.written
    /\ UNCHANGED <<now, timeout, last, cache, endpoint>>
    /\ UNCHANGED notquery

\* The replies the endpoint may give to a request: one of a few, or any
\* with a body of up to MaxVersions versions.
FewBodies ==
    {Package(<<Entry("1.0.0", "false", "m1", "object", "u", "h")>>),
     Package(<<Entry("2.0.0", "false", "m2", "object", "u", "h"),
               Entry("1.0.0", "true", "m1", "object", "u", "h")>>)}

Packages == {Package(vs) : vs \in SeqsUpTo(Entries, MaxVersions)}

Endpoint ==
    IF endpoint = "few" THEN Replies(FewBodies)
    ELSE IF endpoint = "any"
    THEN Replies(Packages) \cup {Status(404, NoPackage), Status(200, NoBody)}
    ELSE {}

Query ==
    \E package \in Specifiers, reply \in Endpoint, saved \in BOOLEAN :
        query(package, reply, saved)

\* The source with a cache (or without), before a registry that gives one of
\* a few replies to each request, as time passes.
QueryInit ==
    /\ now = 0
    /\ files \in [Paths -> {NoFile, Unreadable, Garbage}]
    /\ timeout \in Timeouts
    /\ written = [f \in Paths |-> -1]
    /\ last = <<>>
    /\ cache = TRUE
    /\ endpoint = "few"
    /\ answer = NoAnswer
    /\ New(<<>>, 0)
    /\ ProcIdle
    /\ LaterIdle

QueryNext ==
    \/ Query
    \/ Tick
    \/ ClockSetBack

SpecQuery == QueryInit /\ [][QueryNext]_vars

\* The source without a cache, asked once, before a registry that may reply
\* with any body of up to MaxVersions versions.
FilterInit ==
    /\ CacheIdle
    /\ cache = FALSE
    /\ endpoint = "any"
    /\ answer = NoAnswer
    /\ New(<<>>, 0)
    /\ ProcIdle
    /\ LaterIdle

QueryOnce ==
    /\ answer = NoAnswer
    /\ Query

SpecFilter == FilterInit /\ [][QueryOnce]_vars

(***************************************************************************)
(* AsJs: the conversions at the JavaScript boundary (api/src/js/as_js.rs). *)
(***************************************************************************)
\* The kinds of extern, and the rest of an ExternType (its signature).
Kinds == {"Function", "Memory", "Global", "Table"}
Signatures == {"s1", "s2"}
ExternType(kind, ty) == [kind |-> kind, ty |-> ty]
ExternTypes == {ExternType(k, t) : k \in Kinds, t \in Signatures}

\* A JsValue: an object of one of the four WebAssembly classes (with the
\* signature it really has), a number (in halves), null, or a BigInt.
JsValue(kind, ty, n) == [kind |-> kind, ty |-> ty, n |-> n]
JsNull == JsValue("Null", "", 0)
JsExterns == {JsValue(k, t, 0) : k \in Kinds, t \in Signatures}
JsNumbers == {JsValue("Number", "", n) : n \in {-3, 0, 3}}
JsValues == JsExterns \cup JsNumbers \cup {JsNull, JsValue("BigInt", "", 2)}

\* val.is_instance_of::<JsMemory>() and its like.
is_instance_of_any(val, kind) == TRUE
is_instance_of(val, kind) == val.kind = kind

\* An Extern made by from_vm_extern of a handle and the declared type, and
\* the JsError of a value of another kind.
Extern(kind, ty, handle) == [kind |-> kind, ty |-> ty, handle |-> handle]
NoExtern == Extern("", "", JsNull)
JsError(expected, received) == [expected |-> expected, received |-> received]
NoError == JsError("", JsNull)
Bridged(status, extern, error) == [status |-> status, extern |-> extern, error |-> error]

\* <Extern as AsJs>::from_jsvalue(store, extern_type, val): each arm of the
\* match checks the class of the value and nothing else.
Extern_from_jsvalue(extern_type, val) ==
    IF is_instance_of(val, extern_type.kind)
    THEN Bridged("ok", Extern(extern_type.kind, extern_type.ty, val), NoError)
    ELSE Bridged("err", NoExtern, JsError(extern_type.kind, val))

\* The imports a module declares, by (namespace, name), and the imports
\* object: its namespaces and their members in the order of Object::entries.
Keys == {<<"env", "mem">>, <<"wasi", "f">>}
Modules == UNION {[ks -> {ExternType(k, "s1") : k \in Kinds}] : ks \in SUBSET Keys}
ImportValues == {JsValue(k, "s1", 0) : k \in Kinds} \cup {JsValue("Number", "", 0)}
KeyOrders ==
    {<<>>} \cup {<<k>> : k \in Keys}
        \cup {o \in Keys \X Keys : o[1] # o[2]}
Objects ==
    UNION {{[i \in 1..Len(o) |-> [key |-> o[i], val |-> f[i]]] :
               f \in [1..Len(o) -> ImportValues]} : o \in KeyOrders}

Imported(status, map, error) == [status |-> status, map |-> map, error |-> error]

\* The loops of <Imports as AsJs>::from_jsvalue over the entries: the type
\* of each key is looked up with get(&key).unwrap(), the value is bridged
\* with `?`, the extern goes into the map.
RECURSIVE Walk(_, _, _)
Walk(module_imports, entries, map) ==
    IF entries = <<>> THEN Imported("ok", map, NoError)
    ELSE LET key == Head(entries).key
             import_js == Head(entries).val
         IN  IF key \notin DOMAIN module_imports
             THEN Imported("panic", <<>>, NoError)
             ELSE LET extern_ == Extern_from_jsvalue(module_imports[key], import_js)
                  IN  IF extern_.status # "ok"
                      THEN Imported("err", <<>>, extern_.error)
                      ELSE Walk(module_imports, Tail(entries),
                                [k \in DOMAIN map \cup {key} |->
                                    IF k = key THEN extern_.extern ELSE map[k]])

Imports_from_jsvalue(module, value) == Walk(module, value, <<>>)

\* Type and Value. A scalar holds a number, a FuncRef a function or nothing,
\* an ExternRef is opaque.
Types == {"I32", "I64", "F32", "F64", "V128", "FuncRef", "ExternRef"}
Value(ty, n, func) == [ty |-> ty, n |-> n, func |-> func]
NoValue == Value("", 0, JsNull)
Values ==
    {Value(t, n, JsNull) : t \in {"I32", "I64", "V128"}, n \in {-1, 0, 1}}
        \cup {Value(t, n, JsNull) : t \in {"F32", "F64"}, n \in {-3, 0, 3}}
        \cup {Value("FuncRef", 0, f) : f \in {JsNull, JsValue("Function", "s1", 0)}}
        \cup {Value("ExternRef", 0, JsNull)}

Converted(status, value, js_val) == [status |-> status, value |-> value, js_val |-> js_val]

\* `as` from f64 to an integer type cuts the fraction off.
as_int(halves) == IF halves >= 0 THEN halves \div 2 ELSE -((-halves) \div 2)

\* param_from_js(ty, js_val): as_f64().unwrap() panics for a value that is
\* no number, unimplemented!() for the other types.
param_from_js(ty, js_val) ==
    IF ty \in {"I32", "I64", "F32", "F64"}
    THEN IF js_val.kind # "Number" THEN Converted("panic", NoValue, js_val)
         ELSE IF ty \in {"I32", "I64"}
         THEN Converted("ok", Value(ty, as_int(js_val.n), JsNull), js_val)
         ELSE Converted("ok", Value(ty, js_val.n, JsNull), js_val)
    ELSE Converted("panic", NoValue, js_val)

\* <Value as AsJs>::from_jsvalue(store, type_, value)
Value_from_jsvalue(type_, value) == param_from_js(type_, value)

\* <Value as AsJs>::as_jsvalue(&self, store)
Value_as_jsvalue(self) ==
    IF self.ty \in {"I32", "I64", "V128"}
    THEN Converted("ok", self, JsValue("Number", "", self.n * 2))
    ELSE IF self.ty \in {"F32", "F64"}
    THEN Converted("ok", self, JsValue("Number", "", self.n))
    ELSE IF self.ty = "FuncRef"
    THEN Converted("ok", self, self.func)
    ELSE Converted("panic", self, JsNull)

\* The calls at the boundary.
JsCall(op, type_, val, result) ==
    [op |-> op, type_ |-> type_, val |-> val, result |-> result]

JsInit ==
    /\ js = JsCall("none", "", JsNull, "")
    /\ New(<<>>, 0)
    /\ CacheIdle
    /\ QueryIdle
    /\ LaterIdle
    /\ proc = <<>>
    /\ durable = {}

ExternFromJs ==
    /\ \E extern_type \in ExternTypes, val \in JsValues :
          js' = JsCall("Extern::from_jsvalue", extern_type, val,
                       Extern_from_jsvalue(extern_type, val))
    /\ UNCHANGED notjs

ImportsFromJs ==
    /\ \E module \in Modules, value \in Objects :
          js' = JsCall("Imports::from_jsvalue", module, value,
                       Imports_from_jsvalue(module, value))
    /\ UNCHANGED notjs

ValueFromJs ==
    /\ \E type_ \in Types, value \in JsValues :
          js' = JsCall("Value::from_jsvalue", type_, value,
                       Value_from_jsvalue(type_, value))
    /\ UNCHANGED notjs

ValueAsJs ==
    /\ \E self \in Values :
          js' = JsCall("Value::as_jsvalue", self.ty, self, Value_as_jsvalue(self))
    /\ UNCHANGED notjs

JsNext ==
    \/ ExternFromJs
    \/ ImportsFromJs
    \/ ValueFromJs
    \/ ValueAsJs

SpecJs == JsInit /\ [][JsNext]_vars

(***************************************************************************)
(* BinaryPackage and BinaryPackageCommand: the hashes                      *)
(* (lib/wasix/src/bin_factory/binary_package.rs).                          *)
(***************************************************************************)
\* How many hash calls are made on a package and its commands.
MaxHashCalls == 3
\* Most commands of a package.
MaxCommands == 2

\* The byte strings of the model: the atoms of the commands, and the bytes of
\* the package name; one atom has the bytes of the package name.
Atoms == {<<0>>, <<112>>}
CommandNames == {"a", "b"}
as_bytes(package_name) == IF package_name = "p" THEN <<112>> ELSE <<80>>

\* ModuleHash::sha256: the digest of a byte string, which is not the string.
sha256(bytes) == [sha256 |-> bytes]

\* OnceCell: empty, or holding the one value it was initialized with.
OnceCell_new == <<>>
get(cell) == cell[1]

\* get_or_init runs the initializer when the cell is empty, and never again.
initializes_always(cell) == TRUE
initializes(cell) == cell = OnceCell_new
get_or_init(cell, value) == IF initializes(cell) THEN <<value>> ELSE cell

\* webc::metadata::Command, by its runner: the runners that accept it.
Runners == <<"wcgi", "wasi", "emscripten">>
Metadata(runner) == [runner |-> runner]
Commands == {Metadata(runner) :
               runner \in {{}, {"wcgi", "wasi"}, {"wasi", "emscripten"}, {"emscripten"}}}

BinaryPackageCommand_new(name, metadata, atom) ==
    [name |-> name, metadata |-> metadata, atom |-> atom, hash |-> OnceCell_new]

\* The command lists of a package, the commands differing in name and atom.
BinaryPackageCommands ==
    UNION {[1..n -> {BinaryPackageCommand_new(name, Metadata({"wasi"}), atom) :
                       name \in CommandNames, atom \in Atoms}] :
           n \in 0..MaxCommands}

\* entrypoint_cmd: None is the empty sequence, Some(name) the sequence <<name>>.
None == <<>>
Some(x) == <<x>>

\* load_package_tree builds the package; its hash cells are empty.
BinaryPackage(package_name, entrypoint_cmd, commands) ==
    [package_name |-> package_name, entrypoint_cmd |-> entrypoint_cmd,
     hash |-> OnceCell_new, commands |-> commands]

\* get_command: the first command of that name.
find_none(commands, name) == None
find(commands, name) ==
    LET at == {i \in 1..Len(commands) : commands[i].name = name}
    IN  IF at = {} THEN None
        ELSE Some(commands[CHOOSE i \in at : \A k \in at : i <= k])
get_command(self, name) == find(self.commands, name)

\* entrypoint_bytes: the atom of the entrypoint command, if there is one.
entrypoint_bytes(self) ==
    IF self.entrypoint_cmd = None THEN None
    ELSE LET entry == get_command(self, self.entrypoint_cmd[1])
         IN  IF entry = None THEN None ELSE Some(entry[1].atom)

\* The initializer of BinaryPackage::hash.
package_digest(self) ==
    IF entrypoint_bytes(self) # None
    THEN sha256(entrypoint_bytes(self)[1])
    ELSE sha256(as_bytes(self.package_name))

\* A hash call: on the package (0) or on its i-th command, and its value.
Hashed(of, value) == [of |-> of, value |-> value]

PkgInit ==
    /\ \E entrypoint_cmd \in {None} \cup {Some(name) : name \in CommandNames},
          commands \in BinaryPackageCommands :
          /\ binary_package = BinaryPackage("p", entrypoint_cmd, commands)
          /\ sha256_calls = [i \in 0..Len(commands) |-> 0]
    /\ hashed = <<>>
    /\ New(<<>>, 0)
    /\ CacheIdle
    /\ QueryIdle
    /\ ProcIdle
    /\ RunIdle
    /\ SpawnIdle
    /\ SysIdle

\* BinaryPackageCommand::hash on the i-th command of the package.
BinaryPackageCommand_hash(i) ==
    LET self == binary_package.commands[i]
        cell == get_or_init(self.hash, sha256(self.atom))
    IN  /\ binary_package' = [binary_package EXCEPT !.commands[i].hash = cell]
        /\ sha256_calls' = [sha256_calls EXCEPT
                              ![i] = @ + IF initializes(self.hash) THEN 1 ELSE 0]
        /\ hashed' = Append(hashed, Hashed(i, get(cell)))
        /\ UNCHANGED notpkg

\* BinaryPackage::hash.
BinaryPackage_hash ==
    LET self == binary_package
        cell == get_or_init(self.hash, package_digest(self))
    IN  /\ binary_package' = [binary_package EXCEPT !.hash = cell]
        /\ sha256_calls' = [sha256_calls EXCEPT
                              ![0] = @ + IF initializes(self.hash) THEN 1 ELSE 0]
        /\ hashed' = Append(hashed, Hashed(0, get(cell)))
        /\ UNCHANGED notpkg

CommandHash ==
    /\ \E i \in 1..Len(binary_package.commands) :
          /\ Len(hashed) < MaxHashCalls
          /\ BinaryPackageCommand_hash(i)

PackageHash ==
    /\ Len(hashed) < MaxHashCalls
    /\ BinaryPackage_hash

PkgNext == CommandHash \/ PackageHash

SpecPkg == PkgInit /\ [][PkgNext]_vars

(***************************************************************************)
(* The run command of the CLI (lib/cli/src/commands/run.rs).               *)
(***************************************************************************)
\* A call made in the run command: its arguments, what it returned, the
\* runners whose can_run_command was asked, the runners that ran a command
\* (with the command's name), and the message left on the progress bar.
RunCall(op, args, result, tried, ran, progress) ==
    [op |-> op, args |-> args, result |-> result, tried |-> tried, ran |-> ran,
     progress |-> progress]

\* The command lists of a package, the commands differing in name and runner.
RunnableCommands ==
    UNION {[1..n -> {BinaryPackageCommand_new(name, metadata, <<0>>) :
                       name \in CommandNames, metadata \in Commands}] :
           n \in 0..MaxCommands}

\* infer_webc_entrypoint.
infer_first(pkg) ==
    IF Len(pkg.commands) = 0 THEN Err("no commands") ELSE Ok(pkg.commands[1].name)
infer_webc_entrypoint(pkg) ==
    IF pkg.entrypoint_cmd # None THEN Ok(pkg.entrypoint_cmd[1])
    ELSE IF Len(pkg.commands) = 0 THEN Err("no commands")
    ELSE IF Len(pkg.commands) = 1 THEN Ok(pkg.commands[1].name)
    ELSE Err("choose one")

\* Runner::can_run_command of each runner.
can_run_command(runner, metadata) == runner \in metadata.runner

\* The runner chosen in execute_webc, and the runners asked on the way.
Selected(tried, runner) == [tried |-> tried, runner |-> runner]
select_wasi_first(metadata) ==
    IF can_run_command("wasi", metadata)
    THEN Selected(<<"wasi">>, Some("wasi"))
    ELSE IF can_run_command("wcgi", metadata)
    THEN Selected(<<"wasi", "wcgi">>, Some("wcgi"))
    ELSE IF can_run_command("emscripten", metadata)
    THEN Selected(<<"wasi", "wcgi", "emscripten">>, Some("emscripten"))
    ELSE Selected(<<"wasi", "wcgi", "emscripten">>, None)
select(metadata) ==
    IF can_run_command("wcgi", metadata)
    THEN Selected(<<"wcgi">>, Some("wcgi"))
    ELSE IF can_run_command("wasi", metadata)
    THEN Selected(<<"wcgi", "wasi">>, Some("wasi"))
    ELSE IF can_run_command("emscripten", metadata)
    THEN Selected(<<"wcgi", "wasi", "emscripten">>, Some("emscripten"))
    ELSE Selected(<<"wcgi", "wasi", "emscripten">>, None)

\* Run::execute_webc: entrypoint is self.entrypoint, uses what
\* load_injected_packages returns, outcome what the runner's run_command does.
execute_webc(entrypoint, pkg, uses, outcome) ==
    LET args == <<entrypoint, pkg, uses, outcome>>
        id == IF entrypoint # None THEN Ok(entrypoint[1])
              ELSE infer_webc_entrypoint(pkg)
        cmd == get_command(pkg, id.v)
        chosen == select(cmd[1].metadata)
    IN  IF ~id.ok THEN RunCall("execute_webc", args, id, <<>>, <<>>, "")
        ELSE IF cmd = None
        THEN RunCall("execute_webc", args, Err("no metadata"), <<>>, <<>>, "")
        ELSE IF ~uses.ok THEN RunCall("execute_webc", args, uses, <<>>, <<>>, "")
        ELSE IF chosen.runner = None
        THEN RunCall("execute_webc", args, Err("no runner"), chosen.tried, <<>>, "")
        ELSE RunCall("execute_webc", args, outcome, chosen.tried,
                     <<<<chosen.runner[1], id.v>>>>, "")

ExecuteWebc ==
    /\ \E entrypoint \in {None} \cup {Some(name) : name \in CommandNames},
          entrypoint_cmd \in {None} \cup {Some(name) : name \in CommandNames},
          commands \in RunnableCommands,
          uses \in {Ok("uses"), Err("uses")},
          outcome \in {Ok("()"), Err("runner")} :
          run' = execute_webc(entrypoint, BinaryPackage("p", entrypoint_cmd, commands),
                              uses, outcome)
    /\ UNCHANGED notrun

\* TargetOnDisk::from_file reads into a buffer of this many bytes.
BufferLen == 512

\* The magic numbers: "\0asm", "\0webc" and "wasmer-universal".
WasmMagic == <<0, 97, 115, 109>>
WebcMagic == <<0, 119, 101, 98, 99>>
ArtifactMagic == <<119, 97, 115, 109, 101, 114, 45, 117,
                   110, 105, 118, 101, 114, 115, 97, 108>>

starts_with(bytes, magic) ==
    Len(magic) <= Len(bytes) /\ SubSeq(bytes, 1, Len(magic)) = magic
is_wasm(bytes) == starts_with(bytes, WasmMagic)
detect(bytes) == starts_with(bytes, WebcMagic)
is_deserializable(bytes) == starts_with(bytes, ArtifactMagic)

\* A file on disk: whether it can be opened, the extension of its path, its
\* first bytes and how many bytes follow them.
FileOnDisk(opens, extension, head, rest) ==
    [opens |-> opens, extension |-> extension, head |-> head, rest |-> rest]
Extensions == {None, Some("wat"), Some("wasm"), Some("wasmu"), Some("webc"), Some("txt")}
Heads == {<<>>, WasmMagic, WebcMagic, ArtifactMagic, <<0, 97>>, <<119, 97, 115, 109>>}
FilesOnDisk ==
    {FileOnDisk(opens, extension, head, rest) :
       opens \in BOOLEAN, extension \in Extensions, head \in Heads,
       rest \in {0, BufferLen}}

\* f.read(&mut buffer): the bytes read, and the leading bytes.
Min(a, b) == IF a <= b THEN a ELSE b
bytes_read(file) == Min(BufferLen, Len(file.head) + file.rest)
leading_bytes(file) == SubSeq(file.head, 1, Min(bytes_read(file), Len(file.head)))

\* The fallback on the extension of the path.
from_extension(extension) ==
    IF extension = Some("wat") THEN Ok("Wat")
    ELSE IF extension = Some("wasm") THEN Ok("WebAssemblyBinary")
    ELSE IF extension = Some("webc") THEN Ok("LocalWebc")
    ELSE IF extension = Some("wasmu") THEN Ok("WebAssemblyBinary")
    ELSE Err("Unable to determine how to execute")

\* TargetOnDisk::from_file, in a build with or without the compiler feature.
from_file(compiler, file) ==
    LET args == <<compiler, file>>
        buffer == leading_bytes(file)
    IN  IF ~file.opens
        THEN RunCall("from_file", args, Err("Unable to open"), <<>>, <<>>, "")
        ELSE IF is_wasm(buffer)
        THEN RunCall("from_file", args, Ok("WebAssemblyBinary"),
                     <<"is_wasm">>, <<>>, "")
        ELSE IF detect(buffer)
        THEN RunCall("from_file", args, Ok("LocalWebc"),
                     <<"is_wasm", "detect">>, <<>>, "")
        ELSE IF compiler /\ is_deserializable(buffer)
        THEN RunCall("from_file", args, Ok("Artifact"),
                     <<"is_wasm", "detect", "is_deserializable">>, <<>>, "")
        ELSE RunCall("from_file", args, from_extension(file.extension),
                     IF compiler THEN <<"is_wasm", "detect", "is_deserializable">>
                     ELSE <<"is_wasm", "detect">>, <<>>, "")

FromFile ==
    /\ \E compiler \in BOOLEAN, file \in FilesOnDisk : run' = from_file(compiler, file)
    /\ UNCHANGED notrun

\* Longest chain of errors (an error and its sources).
MaxErrors == 2

\* wasi::ExitCode and its raw value.
ExitCode(variant, n) == [variant |-> variant, n |-> n]
ExitCodes == {ExitCode("Errno", 0), ExitCode("Errno", 8), ExitCode("Other", 42)}
raw(exit_code) == exit_code.n

\* The errors of a chain: a WasiError (Exit or another variant), a
\* WasiRuntimeError (with or without an exit code), or any other error.
Error(type, exit_code) == [type |-> type, exit_code |-> exit_code]
Errors ==
    {Error("WasiError::Exit", Some(c)) : c \in ExitCodes}
    \cup {Error("WasiError", None), Error("other", None)}
    \cup {Error("WasiRuntimeError", c) : c \in {None} \cup {Some(c) : c \in ExitCodes}}
ErrorChains == UNION {[1..n -> Errors] : n \in 1..MaxErrors}

as_exit_code(error) == error.exit_code

get_exit_code_none(error) == None
get_exit_code(error) ==
    IF error.type = "WasiError::Exit" THEN error.exit_code
    ELSE IF error.type = "WasiRuntimeError" THEN as_exit_code(error)
    ELSE None

\* error.chain().find_map(get_exit_code).
find_map(errors) ==
    LET found == {i \in 1..Len(errors) : get_exit_code(errors[i]) # None}
    IN  IF found = {} THEN None
        ELSE get_exit_code(errors[CHOOSE i \in found : \A k \in found : i <= k])

\* exit_with_wasi_exit_code: the code given to std::process::exit.
exit_with_wasi_exit_code(result) ==
    LET exit_code == IF result.ok THEN 0
                     ELSE IF find_map(result.v) # None THEN raw(find_map(result.v)[1])
                     ELSE 1
    IN  RunCall("exit_with_wasi_exit_code", result, exit_code, <<>>, <<>>, "")

Execute ==
    /\ \E result \in {Ok(<<>>)} \cup {Err(errors) : errors \in ErrorChains} :
          run' = exit_with_wasi_exit_code(result)
    /\ UNCHANGED notrun

\* The runtime that MonitoringRuntime wraps: what each of its methods
\* returns, and what its source and its package loader answer.
Capabilities == {"networking", "task_manager", "module_cache", "engine",
                 "new_store", "http_client", "tty"}
Queried == {"p", "q"}
QueryResults == {Ok("summaries"), Err("NotFound")}
LoadResults == {Ok("container"), Err("download")}
TreeResults == {Ok("package"), Err("tree")}
Runtimes ==
    [networking : {"net"}, task_manager : {"tasks"}, module_cache : {"cache"},
     engine : {"engine"}, new_store : {"store"},
     http_client : {None, Some("client")}, tty : {None, Some("tty")},
     source : [Queried -> QueryResults],
     load : LoadResults, load_package_tree : TreeResults]

\* impl Runtime for MonitoringRuntime: the methods that forward.
MonitoringRuntime_forward(self, capability) ==
    RunCall(capability, self, self.runtime[capability], <<>>, <<>>, self.progress)

MonitoringRuntime_new(runtime, progress) == [runtime |-> runtime, progress |-> progress]

\* MonitoringSource::query.
inner_query_lost(wrapped, package) == Err("NotFound")
inner_query(wrapped, package) == wrapped.source[package]
MonitoringSource_query(self, package) ==
    RunCall("query", <<self, package>>, inner_query(self.runtime, package),
            <<>>, <<>>, "Looking up")

\* MonitoringPackageLoader::load and load_package_tree.
MonitoringPackageLoader_load(self) ==
    RunCall("load", <<self>>, self.runtime.load, <<>>, <<>>, "Downloading")
MonitoringPackageLoader_load_package_tree(self) ==
    RunCall("load_package_tree", <<self>>, self.runtime.load_package_tree,
            <<>>, <<>>, self.progress)

Monitored == {MonitoringRuntime_new(runtime, "Initializing") : runtime \in Runtimes}

Forward ==
    /\ \E self \in Monitored, capability \in Capabilities :
          run' = MonitoringRuntime_forward(self, capability)
    /\ UNCHANGED notrun

MonitoredQuery ==
    /\ \E self \in Monitored, package \in Queried :
          run' = MonitoringSource_query(self, package)
    /\ UNCHANGED notrun

MonitoredLoad ==
    /\ \E self \in Monitored : run' = MonitoringPackageLoader_load(self)
    /\ UNCHANGED notrun

MonitoredLoadTree ==
    /\ \E self \in Monitored : run' = MonitoringPackageLoader_load_package_tree(self)
    /\ UNCHANGED notrun

RunInit ==
    /\ run = RunCall("none", <<>>, <<>>, <<>>, <<>>, "")
    /\ New(<<>>, 0)
    /\ CacheIdle
    /\ QueryIdle
    /\ ProcIdle
    /\ PkgIdle
    /\ SpawnIdle
    /\ SysIdle

\* One call is made in each behaviour.
RunCalls ==
    \/ ExecuteWebc
    \/ FromFile
    \/ Execute
    \/ Forward
    \/ MonitoredQuery
    \/ MonitoredLoad
    \/ MonitoredLoadTree

RunNext == run.op = "none" /\ RunCalls

SpecRun == RunInit /\ [][RunNext]_vars

(***************************************************************************)
(* proc_spawn (lib/wasix/src/syscalls/wasix/proc_spawn.rs).                *)
(***************************************************************************)
\* How many processes a parent forks.
MaxForks == 2

\* Guest strings are sequences of characters; "LF" and "CR" are the line
\* feed and the carriage return.
Preopens == {<<>>, <<"LF">>, <<"/">>, <<"/", "LF", "a">>, <<"CR", "a">>}

\* text.split(&['\n', '\r']).filter(|a| !a.is_empty()).collect().
RECURSIVE pieces(_, _)
pieces(text, piece) ==
    IF text = <<>> THEN <<piece>>
    ELSE IF Head(text) \in {"LF", "CR"} THEN <<piece>> \o pieces(Tail(text), <<>>)
    ELSE pieces(Tail(text), Append(piece, Head(text)))
split(text) == SelectSeq(pieces(text, <<>>), LAMBDA a : a # <<>>)

\* The arguments of a proc_spawn call, and what the calls it makes come to:
\* whether the guest strings can be read, whether WasiEnv::fork succeeds,
\* whether file descriptors can be created, how the program is launched
\* ("builtin", "spawned", or "failed"), and whether ret_handles can be written.
SpawnArgs(readable, chroot, preopen, stdin, fork, fds, launch, writable) ==
    [readable |-> readable, chroot |-> chroot, preopen |-> preopen,
     stdin |-> stdin, fork |-> fork, fds |-> fds, launch |-> launch,
     writable |-> writable]

\* ProcessHandles.
ProcessHandles(pid, stdin) == [pid |-> pid, stdin |-> stdin]

\* What proc_spawn_internal returns and the state it leaves.
Spawned(env, result) == [env |-> env, result |-> result]

\* The preopen check of proc_spawn_internal.
rejects(preopen) == preopen # <<>>

\* conv_stdio_mode on the standard input.
conv_stdio_mode(mode, fds) ==
    IF mode = "Piped"
    THEN IF fds THEN Ok(Some("pipe")) ELSE Err("Mfile")
    ELSE Ok(None)

proc_spawn_internal(env, call, preopen) ==
    LET child_pid == env.forks + 1
        forked == [env EXCEPT !.forks = child_pid,
                              !.owned_handles = Append(@, child_pid)]
        stdin == conv_stdio_mode(call.stdin, call.fds)
    IN  IF ~call.fork THEN Spawned(env, Err("Access"))
        ELSE IF rejects(preopen) THEN Spawned(forked, Err("Notsup"))
        ELSE IF ~stdin.ok THEN Spawned(forked, stdin)
        ELSE IF call.launch = "failed" THEN Spawned(forked, Err("Noexec"))
        ELSE Spawned([forked EXCEPT !.spawned = Append(@, child_pid),
                                    !.children = Append(@, child_pid)],
                     Ok(ProcessHandles(child_pid, stdin.v)))

\* proc_spawn: the state of the environment afterwards, with the call and
\* the errno it returned.
proc_spawn(env, call) ==
    LET internal == proc_spawn_internal(env, call, split(call.preopen))
    IN  IF ~call.readable THEN [env EXCEPT !.call = call, !.result = "Memviolation"]
        ELSE IF call.chroot THEN [env EXCEPT !.call = call, !.result = "Notsup"]
        ELSE IF ~internal.result.ok
        THEN [internal.env EXCEPT !.call = call, !.result = internal.result.v]
        ELSE IF ~call.writable
        THEN [internal.env EXCEPT !.call = call, !.result = "Memviolation"]
        ELSE [internal.env EXCEPT !.call = call, !.result = "Success",
                                  !.ret_handles = Some(internal.result.v)]

SpawnCalls ==
    {SpawnArgs(readable, chroot, preopen, stdin, fork, fds, launch, writable) :
       readable \in BOOLEAN, chroot \in BOOLEAN, preopen \in Preopens,
       stdin \in {"Piped", "Inherit"}, fork \in BOOLEAN, fds \in BOOLEAN,
       launch \in {"builtin", "spawned", "failed"}, writable \in BOOLEAN}

\* The environment of the parent: the handles it owns, the children of its
\* process, the processes running, the guest memory at ret_handles, how many
\* processes were forked, and the last call with its errno.
SpawnInit ==
    /\ spawn = [owned_handles |-> <<>>, children |-> <<>>, spawned |-> <<>>,
                ret_handles |-> None, forks |-> 0,
                call |-> SpawnArgs(TRUE, FALSE, <<>>, "Inherit", TRUE, TRUE,
                                   "builtin", TRUE),
                result |-> "none"]
    /\ New(<<>>, 0)
    /\ CacheIdle
    /\ QueryIdle
    /\ ProcIdle
    /\ PkgIdle
    /\ RunIdle
    /\ SysIdle

ProcSpawn ==
    /\ spawn.forks < MaxForks
    /\ \E call \in SpawnCalls : spawn' = proc_spawn(spawn, call)
    /\ UNCHANGED notspawn

SpawnNext == ProcSpawn

SpecSpawn == SpawnInit /\ [][SpawnNext]_vars

(***************************************************************************)
(* BinaryPackage::from_registry (wasix/src/bin_factory/binary_package.rs): *)
(* the calls it makes on the source, the package loader and the resolver,  *)
(* one await after the other.                                              *)
(***************************************************************************)
\* What the collaborators may answer: source.latest a summary or a
\* QueryError, the loader a container or an error, the resolver a resolution
\* or an error, the loader a package or an error.
LatestResults ==
    {Ok("1.0.0"), Ok("2.0.0"), Err("NotFound"), Err("NoMatches"),
     Err("Unsupported"), Err("Registry")}
ContainerResults == {Ok("container"), Err("download"), Err("checksum")}
ResolveResults == {Ok("resolution"), Err("cycle"), Err("registry")}
PackageResults == {Ok("package"), Err("tree")}

\* A call made by from_registry, and the call of from_registry itself.
Step(name, args, result) == [step |-> name, args |-> args, result |-> result]
Loading(specifier, at, steps, root_summary, root, resolution, result) ==
    [specifier |-> specifier, pc |-> at, steps |-> steps,
     root_summary |-> root_summary, root |-> root, resolution |-> resolution,
     result |-> result]

\* The `?` after each call: whether its result ends from_registry.
returns_err_never(result) == FALSE
returns_err(result) == ~result.ok

\* from_registry(specifier, runtime) is called.
FromRegistry ==
    /\ loading.pc = "none"
    /\ \E specifier \in Specifiers :
          loading' = Loading(specifier, "latest", <<>>, "", "", "", "none")
    /\ UNCHANGED notload

\* source.latest(specifier).await.map_err(ResolveError::Registry {..})?
SourceLatest ==
    /\ loading.pc = "latest"
    /\ \E res \in LatestResults :
          LET made == Append(loading.steps, Step("latest", <<loading.specifier>>, res))
          IN  loading' =
                IF returns_err(res)
                THEN [loading EXCEPT !.pc = "returned", !.steps = made,
                         !.result = Err([kind |-> "ResolveError::Registry",
                                         package |-> loading.specifier,
                                         error |-> res.v])]
                ELSE [loading EXCEPT !.pc = "load", !.steps = made,
                         !.root_summary = res.v]
    /\ UNCHANGED notload

\* runtime.package_loader().load(&root_summary).await?
PackageLoaderLoad ==
    /\ loading.pc = "load"
    /\ \E res \in ContainerResults :
          LET made == Append(loading.steps, Step("load", <<loading.root_summary>>, res))
          IN  loading' =
                IF returns_err(res)
                THEN [loading EXCEPT !.pc = "returned", !.steps = made,
                         !.result = Err(res.v)]
                ELSE [loading EXCEPT !.pc = "resolve", !.steps = made,
                         !.root = res.v]
    /\ UNCHANGED notload

\* resolve(&id, &root_summary.pkg, &source).await
\*     .context("Dependency resolution failed")?
Resolve ==
    /\ loading.pc = "resolve"
    /\ \E res \in ResolveResults :
          LET made == Append(loading.steps,
                             Step("resolve", <<loading.root_summary>>, res))
          IN  loading' =
                IF returns_err(res)
                THEN [loading EXCEPT !.pc = "returned", !.steps = made,
                         !.result = Err([context |-> "Dependency resolution failed",
                                         error |-> res.v])]
                ELSE [loading EXCEPT !.pc = "load_package_tree", !.steps = made,
                         !.resolution = res.v]
    /\ UNCHANGED notload

\* runtime.package_loader().load_package_tree(&root, &resolution).await
\*     .map_err(|e| anyhow::anyhow!(e))?; Ok(pkg)
LoadPackageTree ==
    /\ loading.pc = "load_package_tree"
    /\ \E res \in PackageResults :
          LET made == Append(loading.steps,
                             Step("load_package_tree",
                                  <<loading.root, loading.resolution>>, res))
          IN  loading' =
                IF returns_err(res)
                THEN [loading EXCEPT !.pc = "returned", !.steps = made,
                         !.result = Err(res.v)]
                ELSE [loading EXCEPT !.pc = "returned", !.steps = made,
                         !.result = Ok(res.v)]
    /\ UNCHANGED notload

LoadInit ==
    /\ loading = Loading(Specifier("none", "", ""), "none", <<>>, "", "", "", "none")
    /\ New(<<>>, 0)
    /\ CacheIdle
    /\ QueryIdle
    /\ ProcIdle
    /\ PkgIdle
    /\ RunIdle
    /\ SpawnIdle
    /\ SockIdle
    /\ ThreadIdle

LoadNext ==
    \/ FromRegistry
    \/ SourceLatest
    \/ PackageLoaderLoad
    \/ Resolve
    \/ LoadPackageTree

SpecLoad == LoadInit /\ [][LoadNext]_vars

(***************************************************************************)
(* sock_open and sock_accept (wasix/src/syscalls/wasix/sock_open.rs,       *)
(* sock_accept.rs) on the file system of a WasiState.                      *)
(***************************************************************************)
\* The inodes the calls may create, beyond those the state starts with.
MaxSockets == 2

\* Fdflags::empty(), contains and set, on sets of flag names.
Fdflags == SUBSET {"APPEND", "NONBLOCK"}
Fdflags_empty == {}
contains(flags, flag) == flag \in flags
set(flags, flag, value) == IF value THEN flags \cup {flag} ELSE flags \ {flag}

Socktypes == {"Unknown", "Stream", "Dgram", "Raw", "Seqpacket"}
SockProtos == {"Ip", "Tcp", "Udp"}

\* The kinds of inode, and an entry of the fd table.
RegularFile == [kind |-> "File"]
TcpListener == [kind |-> "TcpListener"]
PreSocket(family, ty, pt) ==
    [kind |-> "PreSocket", family |-> family, ty |-> ty, pt |-> pt,
     addr |-> None, write_timeout |-> None, read_timeout |-> None,
     accept_timeout |-> None, connect_timeout |-> None]
TcpStream(socket) ==
    [kind |-> "TcpStream", socket |-> socket,
     write_timeout |-> None, read_timeout |-> None]
Fd(rights, flags, inode) == [rights |-> rights, flags |-> flags, inode |-> inode]

\* state.fs.create_inode_with_default_stat: the inodes afterwards; the new
\* inode is the last of them.
create_inode_with_default_stat(inodes, kind) == Append(inodes, kind)

\* state.fs.create_fd(rights, rights, flags, 0, inode): the fd table
\* afterwards and the new fd, or an errno when the file system has no fd
\* left to give. The fds are numbered from 0.
Created(fds, result) == [fds |-> fds, result |-> result]
create_fd(fds, rights, flags, inode, room) ==
    IF ~room THEN Created(fds, Err("Mfile"))
    ELSE Created(Append(fds, Fd(rights, flags, inode)), Ok(Len(fds)))

\* What a socket call leaves: the file system, the guest's memory cell it
\* may write, and the call with what it did.
SockCall(op, args, nonblocking, first_flags, result) ==
    [op |-> op, args |-> args, nonblocking |-> nonblocking,
     first_flags |-> first_flags, result |-> result]
Sock(fds, inodes, memory, call) ==
    [fds |-> fds, inodes |-> inodes, memory |-> memory, last |-> call]

\* The match on pt of sock_open: whether the protocol rules the type out.
unsupported_never(ty, pt) == FALSE
unsupported(ty, pt) ==
    \/ pt = "Tcp" /\ ty # "Stream"
    \/ pt = "Udp" /\ ty # "Dgram"

\* sock_open(af, ty, pt, ro_sock): `room` tells whether create_fd has an fd
\* to give, `writable` whether ro_sock can be written.
sock_open(env, af, ty, pt, room, writable) ==
    LET args == <<af, ty, pt>>
        Returns(errno, fs) ==
            [fs EXCEPT !.last = SockCall("sock_open", args, FALSE, {}, errno)]
        kind == PreSocket(af, ty, pt)
        inodes == create_inode_with_default_stat(env.inodes, kind)
        made == create_fd(env.fds, "all_socket", Fdflags_empty, Len(inodes), room)
    IN  IF unsupported(ty, pt) THEN Returns("Notsup", env)
        ELSE IF ty \notin {"Stream", "Dgram"} THEN Returns("Notsup", env)
        ELSE IF ~made.result.ok
        THEN Returns(made.result.v, [env EXCEPT !.inodes = inodes])
        ELSE IF ~writable
        THEN Returns("Memviolation",
                     [env EXCEPT !.inodes = inodes, !.fds = made.fds])
        ELSE Returns("Success",
                     [env EXCEPT !.inodes = inodes, !.fds = made.fds,
                                 !.memory = made.result.v])

\* The closure of sock_accept_internal: whether the flags of the listening
\* fd make the accept non-blocking.
inherits_never(fd) == FALSE
inherits(fd) == contains(fd.flags, "NONBLOCK")

\* socket.accept(tasks, nonblocking, timeout): the connection that is
\* pending, or an error: no listener, nothing pending on a non-blocking
\* accept, nothing arriving before the timeout on a blocking one.
accept(socket, nonblocking, pending) ==
    IF socket.kind # "TcpListener" THEN Err("Notsup")
    ELSE IF pending THEN Ok("peer")
    ELSE IF nonblocking THEN Err("Again")
    ELSE Err("Timedout")

\* The new_flags blocks of sock_accept_internal.
new_flags(fd_flags) ==
    IF contains(fd_flags, "NONBLOCK")
    THEN set(Fdflags_empty, "NONBLOCK", TRUE)
    ELSE Fdflags_empty

\* sock_accept_internal(env, sock, fd_flags, nonblocking): the file system
\* afterwards, whether the accept was non-blocking, what the first
\* new_flags block computed, and the new fd or an errno.
Accepted(env, nonblocking, first_flags, result) ==
    [env |-> env, nonblocking |-> nonblocking, first_flags |-> first_flags,
     result |-> result]
sock_accept_internal(env, sock, fd_flags, nonblocking, pending, room) ==
    IF sock >= Len(env.fds) THEN Accepted(env, nonblocking, {}, Err("Badf"))
    ELSE
    LET fd == env.fds[sock + 1]
        socket == env.inodes[fd.inode]
        flags == IF inherits(fd) THEN set(fd_flags, "NONBLOCK", TRUE) ELSE fd_flags
        blocks == IF inherits(fd) THEN TRUE ELSE nonblocking
        child == accept(socket, blocks, pending)
        inodes == create_inode_with_default_stat(env.inodes, TcpStream(child.v))
        first == new_flags(flags)
        second == new_flags(flags)
        made == create_fd(env.fds, "all_socket", second, Len(inodes), room)
    IN  IF socket.kind = "File" THEN Accepted(env, nonblocking, {}, Err("Notsock"))
        ELSE IF ~child.ok THEN Accepted(env, blocks, {}, child)
        ELSE Accepted([env EXCEPT !.inodes = inodes, !.fds = made.fds],
                      blocks, first, made.result)

\* sock_accept(sock, fd_flags, ro_fd)
sock_accept(env, sock, fd_flags, pending, room, writable) ==
    LET nonblocking == contains(fd_flags, "NONBLOCK")
        internal == sock_accept_internal(env, sock, fd_flags, nonblocking,
                                         pending, room)
        Returns(errno, fs) ==
            [fs EXCEPT !.last = SockCall("sock_accept", <<sock, fd_flags>>,
                                         internal.nonblocking,
                                         internal.first_flags, errno)]
    IN  IF ~internal.result.ok THEN Returns(internal.result.v, internal.env)
        ELSE IF ~writable THEN Returns("Memviolation", internal.env)
        ELSE Returns("Success", [internal.env EXCEPT !.memory = internal.result.v])

\* A WasiState with a file at fd 0 and a listening socket at fd 1, whose
\* flags are those a guest may have set on it.
SockInit ==
    /\ \E flags \in Fdflags :
          sockets = Sock(<<Fd("all", {}, 1), Fd("all_socket", flags, 2)>>,
                      <<RegularFile, TcpListener>>, -1,
                      SockCall("none", <<>>, FALSE, {}, "none"))
    /\ New(<<>>, 0)
    /\ CacheIdle
    /\ QueryIdle
    /\ ProcIdle
    /\ PkgIdle
    /\ RunIdle
    /\ SpawnIdle
    /\ LoadIdle
    /\ ThreadIdle

MayCreate == Len(sockets.inodes) < 2 + MaxSockets

SockOpen ==
    /\ MayCreate
    /\ \E ty \in Socktypes, pt \in SockProtos, room \in BOOLEAN, writable \in BOOLEAN :
          sockets' = sock_open(sockets, "Inet4", ty, pt, room, writable)
    /\ UNCHANGED notsock

SockAccept ==
    /\ MayCreate
    /\ \E fd \in 0..Len(sockets.fds), fd_flags \in Fdflags,
          pending \in BOOLEAN, room \in BOOLEAN, writable \in BOOLEAN :
          sockets' = sock_accept(sockets, fd, fd_flags, pending, room, writable)
    /\ UNCHANGED notsock

SockNext ==
    \/ SockOpen
    \/ SockAccept

SpecSock == SockInit /\ [][SockNext]_vars

(***************************************************************************)
(* thread_join (wasix/src/syscalls/wasix/thread_join.rs) among the threads *)
(* of one process.                                                         *)
(***************************************************************************)
\* The thread_join calls that are followed.
MaxJoins == 2

\* The thread ids of the process. A thread is "none" (no thread has that
\* id), "running", "finished" (exited, still known to the process) or
\* "reaped" (exited and forgotten by the process).
Tids == 1..3

\* A thread: its status, where it is in thread_join ("out", "joining" inside
\* the asyncify call, "asleep" after a deep sleep unwound it), and the
\* thread it joins.
Thread(status, at, join_tid) == [status |-> status, pc |-> at, join_tid |-> join_tid]

\* A return of thread_join: who called it on which id, what it returned,
\* whether the id named a thread of the process when it was called, whether
\* that thread had exited when the call returned, and whether the call
\* waited.
Joined(caller, join_tid, result, existed, exited, waited) ==
    [caller |-> caller, join_tid |-> join_tid, result |-> result,
     existed |-> existed, exited |-> exited, waited |-> waited]

\* env.process.get_thread(&tid)
get_thread(process, tid) ==
    IF process[tid].status \in {"running", "finished"} THEN Some(tid) ELSE None

\* other_thread.join().await: whether the future is ready.
ready_always(process, tid) == TRUE
ready(process, tid) == process[tid].status \in {"finished", "reaped"}

JoinReturned(caller, result, waited) ==
    Append(threads.joins,
           Joined(caller, threads.process[caller].join_tid, result, TRUE,
                  threads.process[threads.process[caller].join_tid].status
                      \in {"finished", "reaped"},
                  waited))

\* thread_join(join_tid) is called by a running thread: it exits on a
\* pending signal, returns Success when the process has no such thread, and
\* otherwise enters __asyncify_with_deep_sleep with the join of the thread.
ThreadJoin ==
    /\ Len(threads.joins) < MaxJoins
    /\ \E caller \in Tids, join_tid \in Tids, exits \in BOOLEAN :
          LET process == threads.process
              other_thread == get_thread(process, join_tid)
              exited == process[join_tid].status \in {"finished", "reaped"}
          IN  /\ process[caller].status = "running"
              /\ process[caller].pc = "out"
              /\ threads' =
                    IF exits
                    THEN [process |-> [process EXCEPT ![caller].status = "finished"],
                          joins |-> Append(threads.joins,
                                           Joined(caller, join_tid, "Exit",
                                                  other_thread # None, exited, FALSE))]
                    ELSE IF other_thread = None
                    THEN [process |-> process,
                          joins |-> Append(threads.joins,
                                           Joined(caller, join_tid, "Success",
                                                  FALSE, exited, FALSE))]
                    ELSE [process |-> [process EXCEPT
                                          ![caller].pc = "joining",
                                          ![caller].join_tid = join_tid],
                          joins |-> threads.joins]
    /\ UNCHANGED notthread

\* The join completes inside the asyncify call: thread_join returns Success.
JoinCompletes ==
    /\ \E caller \in Tids :
          /\ threads.process[caller].pc = "joining"
          /\ ready(threads.process, threads.process[caller].join_tid)
          /\ threads' = [process |-> [threads.process EXCEPT ![caller].pc = "out"],
                         joins |-> JoinReturned(caller, "Success", TRUE)]
    /\ UNCHANGED notthread

\* The join does not complete within the 50 ms: the asyncify call unwinds
\* the caller into a deep sleep, and `?` returns its WasiError.
DeepSleep ==
    /\ \E caller \in Tids :
          /\ threads.process[caller].pc = "joining"
          /\ ~ready(threads.process, threads.process[caller].join_tid)
          /\ threads' = [threads EXCEPT !.process[caller].pc = "asleep"]
    /\ UNCHANGED notthread

\* The join completes while the caller sleeps: the caller is rewound into
\* thread_join, where handle_rewind gives the result and Success is returned.
Rewind ==
    /\ \E caller \in Tids :
          /\ threads.process[caller].pc = "asleep"
          /\ ready(threads.process, threads.process[caller].join_tid)
          /\ threads' = [process |-> [threads.process EXCEPT ![caller].pc = "out"],
                         joins |-> JoinReturned(caller, "Success", TRUE)]
    /\ UNCHANGED notthread

\* A running thread that is not inside thread_join exits.
ThreadExits ==
    /\ \E tid \in Tids :
          /\ threads.process[tid].status = "running"
          /\ threads.process[tid].pc = "out"
          /\ threads' = [threads EXCEPT !.process[tid].status = "finished"]
    /\ UNCHANGED notthread

\* The process forgets a thread that has exited.
ThreadReaped ==
    /\ \E tid \in Tids :
          /\ threads.process[tid].status = "finished"
          /\ threads' = [threads EXCEPT !.process[tid].status = "reaped"]
    /\ UNCHANGED notthread

\* A process whose main thread runs; the other ids name no thread, a
\* running thread or one that has exited.
ThreadInit ==
    /\ \E statuses \in [Tids -> {"none", "running", "finished"}] :
          /\ statuses[1] = "running"
          /\ threads = [process |-> [tid \in Tids |-> Thread(statuses[tid], "out", 0)],
                        joins |-> <<>>]
    /\ New(<<>>, 0)
    /\ CacheIdle
    /\ QueryIdle
    /\ ProcIdle
    /\ PkgIdle
    /\ RunIdle
    /\ SpawnIdle
    /\ LoadIdle
    /\ SockIdle

ThreadNext ==
    \/ ThreadJoin
    \/ JoinCompletes
    \/ DeepSleep
    \/ Rewind
    \/ ThreadExits
    \/ ThreadReaped

SpecThread == ThreadInit /\ [][ThreadNext]_vars

(***************************************************************************)
(* What the claims speak of.                                               *)
(***************************************************************************)
IsPrefix(a, b) == Len(a) <= Len(b) /\ a = SubSeq(b, 1, Len(a))
IsOp(tok) == tok.k = "op"
\* The operators of the body, and what the raw decoder answers when it is
\* asked for them one by one: every operator, then its error at the end.
RawOps == [i \in 1..Len(SelectSeq(data, IsOp)) |-> SelectSeq(data, IsOp)[i].s]
RawResults == [i \in 1..Len(RawOps) |-> Ok(RawOps[i])] \o <<Err("eof")>>
\* Each operator twice.
Dup(os) == [i \in 1..2 * Len(os) |-> os[(i + 1) \div 2]]
\* A read_operator call has met the raw decoder's error.
ReadToEnd == pc = "done" /\ out # <<>>
\* The events of one kind, as positions in the record of calls.
At(t) == {p \in DOMAIN events : events[p].t = t}
IsRawEvent(e) == e.t = "raw"
\* The raw operators read so far.
ConsumedOps ==
    [i \in 1..Len(SelectSeq(events, IsRawEvent)) |-> SelectSeq(events, IsRawEvent)[i].op]
\* The bytes the raw decoder has handed out so far.
RECURSIVE ConsumedBytes(_)
ConsumedBytes(n) ==
    IF n = 0 THEN 0
    ELSE ConsumedBytes(n - 1)
         + (IF events[n].t \in {"raw", "hdr"} THEN Width(data[events[n].at]) ELSE 0)

\* C1: with an empty chain, the results of successive read_operator calls are
\* the raw decoder's results on the same body: a prefix of them at any
\* time, and all of them (every operator, then the error) once the error is met.
C1_PassThrough ==
    chain = <<>> => /\ IsPrefix(out, RawResults)
                    /\ ReadToEnd => out = RawResults
C1_Witness ==
    /\ chain = <<>> /\ gen = 1 /\ ReadToEnd
    /\ Len(out) = 4 /\ out[1] # out[2]

\* The locals_info calls and the feeds that stage j of the g-th chain received.
InfosOf(g, j) == {p \in At("info") : events[p].gen = g /\ events[p].stage = j}
FeedsOf(g, j) == {p \in At("feed") : events[p].gen = g /\ events[p].stage = j}

\* C2: every stage receives at most one locals_info call, a stage that is
\* fed has received it before its first feed, and once the function is read
\* every stage of the chain has received exactly one.
C2_LocalsInfoOnce ==
    \A g \in 1..gen, j \in 1..MaxChain :
        /\ Cardinality(InfosOf(g, j)) <= 1
        /\ \A q \in FeedsOf(g, j) : \E p \in InfosOf(g, j) : p < q
        /\ (g = gen /\ j <= Len(chain) /\ ReadToEnd) => Cardinality(InfosOf(g, j)) = 1

\* C3: through a chain of two stages with the default feed, read_operator
\* returns the raw operators in their order, then the raw decoder's error.
C3_IdentityChain ==
    chain = <<"id", "id">> => /\ IsPrefix(out, RawResults)
                              /\ ReadToEnd => out = RawResults
C3_Witness ==
    /\ chain = <<"id", "id">> /\ ReadToEnd
    /\ Len(out) = 4 /\ out[1] # out[2]

\* C4: through the chain [dup], what has been returned so far is dup of the
\* raw operators consumed so far, cut to the length returned, and once the
\* body is read the output holds every raw operator twice.
C4_Dup ==
    chain = <<"dup">> =>
        /\ \A i \in 1..Len(out) : ~out[i].ok => i = Len(out) /\ out[i] = Err("eof")
        /\ LET o == SelectSeq(out, LAMBDA r : r.ok)
           IN  /\ IsPrefix([i \in 1..Len(o) |-> o[i].v], Dup(ConsumedOps))
               /\ IsPrefix(ConsumedOps, RawOps)
               /\ ReadToEnd => /\ Len(o) = 2 * Len(RawOps)
                               /\ ConsumedOps = RawOps
C4_Witness ==
    /\ chain = <<"dup">> /\ ReadToEnd
    /\ Len(out) = 7 /\ out[2] # out[3] /\ out[4] # out[5]

\* C5: stages compose in chain order: through [dup, drop_second]
\* read_operator returns the raw operators, then the raw decoder's error.
C5_DupDropSecond ==
    chain = <<"dup", "drop_second">> => /\ IsPrefix(out, RawResults)
                                        /\ ReadToEnd => out = RawResults
C5_Witness ==
    /\ chain = <<"dup", "drop_second">> /\ ReadToEnd
    /\ Len(out) = 4 /\ out[1] # out[2]
    /\ \E p \in At("feed") : events[p].stage = 2 /\ events[p].n = 0

\* The operators the last stage pushed for raw operator c, and how many of
\* them read_operator had returned before the call at position p.
Emitted(c) ==
    UNION {{<<q, i>> : i \in 1..events[q].n} :
           q \in {q \in At("feed") : events[q].stage = Len(chain) /\ events[q].at = c}}
Returned(c, p) ==
    {q \in At("ret") : q < p /\ ~events[q].err /\ events[q].cyc = c
                       /\ events[q].by = Len(chain)}

\* C6: with a chain, a raw operator is read only when the pending queue is
\* empty, and by then read_operator has returned every operator the chain
\* pushed for the raw operators read before.
C6_ReadWhenEmpty ==
    chain # <<>> =>
        \A p \in At("raw") :
            /\ events[p].n = 0
            /\ \A q \in At("raw") :
                   q < p => Cardinality(Returned(events[q].at, p))
                            = Cardinality(Emitted(events[q].at))
C6_Witness ==
    /\ chain # <<>>
    /\ \E p, q \in At("raw") :
           /\ q < p
           /\ Cardinality(Emitted(events[q].at)) = 2
           /\ Cardinality(Returned(events[q].at, p)) = 2

\* C7: a stage is fed only operators that an earlier stage (or the raw
\* decoder) pushed, and only while the raw operator they were pushed for is
\* being processed.
C7_FedForward ==
    \A p \in At("feed") : /\ events[p].by < events[p].stage
                          /\ events[p].cyc = events[p].at
C7_Witness ==
    \E p, q \in At("feed") :
        /\ events[p].stage = 2 /\ events[p].by = 1
        /\ events[q].stage = 2 /\ events[q].at > events[p].at
        /\ \E r \in At("ret") : events[r].err /\ events[r].op = "mw" /\ r < q

\* C8: when a feed returns a MiddlewareError, nothing more is fed for that
\* raw operator and the read_operator call in progress returns the error.
C8_AbortPropagates ==
    \A p \in At("feed") :
        events[p].err =>
            /\ p < Len(events)
            /\ events[p + 1].t = "ret" /\ events[p + 1].err /\ events[p + 1].op = "mw"
            /\ out[Cardinality({q \in At("ret") : q <= p + 1})] = Err("mw")
            /\ \A q \in At("feed") : q > p => events[q].at # events[p].at
C8_Witness ==
    /\ Len(chain) = 2
    /\ \E p \in At("feed") : events[p].err /\ events[p].stage = 1

\* C9: whatever has been read, queued or returned, the positional accessors
\* report the raw decoder's place: the bytes it has handed out so far.
C9_Positions ==
    LET n == ConsumedBytes(Len(events))
    IN  /\ current_position = n
        /\ original_position = inner.original_offset + n
        /\ bytes_remaining = RawLen - n
        /\ eof = (n >= RawLen)
        /\ range = <<inner.original_offset, inner.original_offset + RawLen>>
        /\ inner.original_offset \in OriginalOffsets
C9_Witness ==
    /\ \E r \in At("ret") : events[r].err /\ events[r].op = "mw"
    /\ pending_operations # <<>>
    /\ current_position > 0 /\ bytes_remaining > 0 /\ ~eof

\* The last call was a lookup that found an entry update had written.
LookedUpEntry == last.op = "lookup" /\ last.before.kind = "entry"
CacheHit == last.res = "hit" /\ last.response = last.before.response
NamesMatch == last.before.package_name = last.name

\* C10 as stated: an entry written at T is returned at T' exactly when
\* T' - T <= timeout and the stored package_name is the name looked up.
C10_FreshnessExact ==
    LookedUpEntry => (CacheHit <=> (last.now - last.written <= timeout /\ NamesMatch))

\* C10, amended: an entry written at T is returned at T' exactly when
\* 0 <= T' - S <= timeout, S being T cut to whole seconds, and the stored
\* package_name is the name looked up.
C10_Freshness ==
    LookedUpEntry =>
        LET age == last.now - from_secs(as_secs(last.written))
        IN  CacheHit <=> (0 <= age /\ age <= timeout /\ NamesMatch)
C10_Witness ==
    /\ LookedUpEntry /\ CacheHit
    /\ last.now - last.written = timeout
    /\ last.written = from_secs(as_secs(last.written))

\* The step is a call of query for `package`: of the steps of the source,
\* those of query are the ones that leave the clock alone.
IsQuery(package) == now' = now /\ answer'.package = package
\* The cache holds for `full_name` an entry younger than the timeout whose
\* stored package_name is `full_name`.
HoldsFresh(full_name) ==
    LET entry == files[path(full_name)]
        age == now - from_secs(entry.unix_timestamp)
    IN  /\ entry.kind = "entry"
        /\ 0 <= age /\ age <= timeout
        /\ entry.package_name = full_name
\* A query for `package` that finds such an entry answers from it and sends
\* no request.
AnsweredFromCache(package) ==
    (IsQuery(package) /\ cache /\ package.kind = "Registry"
        /\ HoldsFresh(package.full_name))
    => LET cached == files[path(package.full_name)].response
       IN  /\ ~answer'.reply.sent
           /\ answer'.looked = "hit"
           /\ answer'.response = Ok(cached)
           /\ answer'.result = Summaries(Ok(cached), package.version)
           /\ files' = files

\* C11 as stated: a query that finds a fresh entry of its name answers from
\* it without a request, and a query for the same name made within the
\* timeout of a successful query before it sends no request and returns the
\* same summaries.
C11_SecondQueryWithinTimeout ==
    [][LET package == answer'.package IN
          /\ AnsweredFromCache(package)
          /\ (/\ IsQuery(package) /\ cache /\ package.kind = "Registry"
              /\ answer.result.kind = "Ok"
              /\ answer.package.full_name = package.full_name
              /\ 0 <= now - answer.now /\ now - answer.now <= timeout)
             => (~answer'.reply.sent
                 /\ answer'.result.summaries = answer.result.summaries)]_vars

\* C11, amended: a query that finds a fresh entry of its name answers from
\* it without a request, and a query made after one for the same specifier
\* that fetched the response and saved it, at a time T' with
\* 0 <= T' - S <= timeout, S being the time of that query cut to whole
\* seconds, sends no request and returns the same result.
C11_CachedAnswer ==
    [][LET package == answer'.package IN
          /\ AnsweredFromCache(package)
          /\ (/\ IsQuery(package) /\ cache
              /\ answer.updated = "ok"
              /\ answer.package = package
              /\ 0 <= now - from_secs(as_secs(answer.now))
              /\ now - from_secs(as_secs(answer.now)) <= timeout)
             => (~answer'.reply.sent /\ answer'.result = answer.result)]_vars
C11_Witness ==
    /\ cache
    /\ answer.looked = "hit" /\ ~answer.reply.sent
    /\ answer.result.kind = "Ok"
    /\ answer.now = written[path(answer.package.full_name)] + timeout

\* C12: a query whose cache lookup failed sends the request, and a query
\* whose lookup failed or whose cache update failed returns what the reply of
\* the registry gives: the response when the reply is a 200 with a body that
\* deserializes, and with it the result of filtering that response.
C12_CacheFailuresNotFatal ==
    (answer.looked = "err" \/ answer.updated = "err") =>
        /\ answer.reply.sent
        /\ (answer.reply.status = 200 /\ from_slice(answer.reply.body).ok) =>
               /\ answer.response = from_slice(answer.reply.body)
               /\ answer.result.kind \in {"Ok", "NotFound", "NoMatches"}
               /\ answer.result = Summaries(answer.response, answer.package.version)
        /\ answer.updated = "err" => answer.reply.status = 200
C12_Witness ==
    /\ answer.looked = "err" /\ answer.updated = "err"
    /\ answer.result.kind = "Ok"
    /\ files[path(answer.package.full_name)] = Unreadable

\* C13: whatever the processes sharing the cache directory do, what a lookup
\* has read is no file or a whole entry, never a file being written, and the
\* file at an entry's path is a whole entry whose content was synced before
\* it was renamed there.
C13_NoPartialFile ==
    /\ \A p \in Procs :
          proc[p].pc = "read" => proc[p].json.kind \in {"none", "entry"}
    /\ \A f \in Paths :
          /\ files[f].kind \in {"none", "entry"}
          /\ files[f].kind = "entry" => f \in durable
    /\ \A p \in Procs :
          proc[p].pc \in {"created", "part", "written", "synced"} =>
              proc[p].temp \notin Paths
C13_Witness ==
    \E p, q \in Procs :
        /\ proc[p].pc = "read" /\ proc[q].pc = "part"
        /\ path(proc[p].package_name) = path(proc[q].package_name)
        /\ proc[p].json.kind = "entry" /\ proc[p].json.response = "r2"
        /\ files[proc[q].temp].kind = "part"

\* The versions of a response that a query with `version_constraint` is to
\* return: not archived, of a semver that parses and satisfies the
\* constraint, with a manifest, a download URL and a hash that decode.
Decodes(field) == field \notin {"null", "bad"}
Wanted(v, version_constraint) ==
    /\ ~v.is_archived
    /\ Version_parse(v.version).ok
    /\ matches(version_constraint, Version_parse(v.version).v)
    /\ Decodes(v.manifest)
    /\ Decodes(v.pirita_download_url)
    /\ Decodes(v.pirita_sha256_hash)
WantedOf(versions, version_constraint) ==
    LET Test(v) == Wanted(v, version_constraint)
        wanted == SelectSeq(versions, Test)
    IN  [i \in 1..Len(wanted) |->
            PackageSummary(wanted[i].manifest, wanted[i].pirita_download_url,
                           wanted[i].pirita_sha256_hash)]
\* The last query got a response with a package.
GotPackage ==
    /\ answer.package.kind = "Registry"
    /\ answer.response.ok
    /\ answer.response.v.get_package = "Some"

\* C14: the summaries a query for a Registry specifier returns are those of
\* the versions of the response, in its order, that are not archived, have a
\* semver that parses and satisfies the constraint, and a manifest, URL and
\* hash that decode; no archived version is among them.
C14_ReturnedVersions ==
    GotPackage =>
        answer.result.summaries =
            WantedOf(answer.response.v.versions, answer.package.version)
C14_Witness ==
    /\ GotPackage
    /\ answer.result.kind = "Ok"
    /\ Len(answer.response.v.versions) = 2
    /\ Len(answer.result.summaries) = 1
    /\ \E i \in 1..2 :
          LET v == answer.response.v.versions[i]
          IN  /\ v.is_archived
              /\ Version_parse(v.version).ok
              /\ matches(answer.package.version, Version_parse(v.version).v)
              /\ Decodes(v.manifest)

\* An entry of the body with every field present and sound, not archived.
Whole(e) ==
    /\ e.version \in {"1.0.0", "2.0.0"}
    /\ e.isArchived = "false"
    /\ e.distribution = "object"
    /\ Decodes(e.piritaManifest)
    /\ Decodes(e.piritaDownloadUrl)
    /\ Decodes(e.piritaSha256Hash)
InSeq(x, seq) == \E i \in 1..Len(seq) : seq[i] = x

\* C15: when the registry replies with a body whose package has versions,
\* some of them with missing fields, the query does not fail, and every
\* version of the body that is whole and satisfies the constraint is
\* returned.
C15_MissingFieldsSkipOneVersion ==
    LET body == answer.reply.body
    IN  (/\ answer.package.kind = "Registry"
         /\ answer.reply.sent /\ answer.reply.status = 200
         /\ body.json = "object" /\ body.getPackage = "object")
        => /\ answer.result.kind # "Registry"
           /\ \A i \in 1..Len(body.versions) :
                 LET e == body.versions[i]
                 IN  (Whole(e) /\ matches(answer.package.version,
                                          Version_parse(e.version).v))
                     => InSeq(PackageSummary(e.piritaManifest, e.piritaDownloadUrl,
                                             e.piritaSha256Hash),
                              answer.result.summaries)

\* The archived versions of a response whose semver parses, in its order.
ArchivedOf(versions) ==
    LET Test(v) == v.is_archived /\ Version_parse(v.version).ok
        archived == SelectSeq(versions, Test)
    IN  [i \in 1..Len(archived) |-> Version_parse(archived[i].version).v]

\* C16: query gives Unsupported for a specifier that is no Registry
\* specifier, NotFound for a response without a package, NoMatches with the
\* archived versions for a response none of whose versions is wanted, and
\* otherwise Ok with at least one summary; never Ok with none.
C16_Outcomes ==
    /\ answer.package.kind = "Url" =>
           answer.result = Result("Unsupported", <<>>, <<>>) /\ ~answer.reply.sent
    /\ (answer.package.kind = "Registry" /\ answer.response.ok
            /\ answer.response.v.get_package = "None") =>
           answer.result = Result("NotFound", <<>>, <<>>)
    /\ GotPackage =>
           LET versions == answer.response.v.versions
           IN  IF \E i \in 1..Len(versions) : Wanted(versions[i], answer.package.version)
               THEN answer.result.kind = "Ok" /\ answer.result.summaries # <<>>
               ELSE answer.result = Result("NoMatches", <<>>, ArchivedOf(versions))
    /\ answer.result.kind = "Ok" => answer.result.summaries # <<>>
C16_Witness ==
    /\ GotPackage
    /\ answer.result.kind = "NoMatches"
    /\ Len(answer.result.archived_versions) = 1
    /\ Len(answer.response.v.versions) = 2

\* C17: a query whose request the registry answers with a status that is not
\* 2xx returns the QueryError Registry.
C17_StatusNot2xx ==
    (answer.reply.sent /\ answer.reply.status # 0
        /\ ~(200 <= answer.reply.status /\ answer.reply.status < 300))
    => answer.result = Result("Registry", <<>>, <<>>)
C17_Witness ==
    /\ answer.reply = Status(404, NoPackage)
    /\ answer.result.kind = "Registry"

\* C18: Extern::from_jsvalue, given a type of kind K and a value, returns an
\* error naming K and no Extern when the value is of another kind (or of
\* none), and an Extern of kind K with the declared type when the value is
\* of kind K, whatever the value's own signature.
C18_KindCheckOnly ==
    js.op = "Extern::from_jsvalue" =>
        IF js.val.kind = js.type_.kind
        THEN js.result = Bridged("ok", Extern(js.type_.kind, js.type_.ty, js.val), NoError)
        ELSE /\ js.result.status = "err"
             /\ js.result.extern = NoExtern
             /\ js.result.error = JsError(js.type_.kind, js.val)
C18_Witness ==
    /\ js.op = "Extern::from_jsvalue"
    /\ js.type_ = ExternType("Memory", "s1")
    /\ js.val = JsValue("Function", "s1", 0)
    /\ js.result.status = "err"
\* A value of the declared kind and another signature is accepted.
C18_WitnessMatch ==
    /\ js.op = "Extern::from_jsvalue"
    /\ js.val.kind = js.type_.kind /\ js.val.ty # js.type_.ty
    /\ js.result.status = "ok"

\* The first entry of the object whose key the module does not declare or
\* whose value is of another kind than declared, 0 if there is none.
FirstAmiss(module, value) ==
    LET amiss == {i \in 1..Len(value) :
                     \/ value[i].key \notin DOMAIN module
                     \/ value[i].val.kind # module[value[i].key].kind}
    IN  IF amiss = {} THEN 0 ELSE CHOOSE i \in amiss : \A j \in amiss : i <= j

MissingImport(namespace, name) ==
    JsError("MissingImport", JsValue(namespace, name, 0))

\* C19: Imports::from_jsvalue returns the error MissingImport(namespace,
\* name) when the first entry amiss has a key the module does not declare,
\* and the error of Extern::from_jsvalue when its value is of another kind
\* than declared.
C19_MissingImport ==
    js.op = "Imports::from_jsvalue" =>
        LET i == FirstAmiss(js.type_, js.val)
        IN  i # 0 =>
              /\ js.result.status = "err"
              /\ IF js.val[i].key \notin DOMAIN js.type_
                 THEN js.result.error = MissingImport(js.val[i].key[1], js.val[i].key[2])
                 ELSE js.result.error = JsError(js.type_[js.val[i].key].kind, js.val[i].val)

\* C20: converting a value of a scalar type succeeds in both directions,
\* and converting a reference succeeds or returns the error Unsupported; no
\* conversion aborts.
C20_ConversionsTotal ==
    /\ (js.op = "Value::from_jsvalue" /\ js.val.kind = "Number") =>
           IF js.type_ \in {"I32", "I64", "F32", "F64", "V128"}
           THEN js.result.status = "ok" /\ js.result.value.ty = js.type_
           ELSE js.result.status \in {"ok", "Unsupported"}
    /\ js.op = "Value::as_jsvalue" =>
           IF js.type_ \in {"I32", "I64", "F32", "F64", "V128"}
           THEN js.result.status = "ok" /\ js.result.js_val.kind = "Number"
           ELSE js.result.status \in {"ok", "Unsupported"}

\* C21: BinaryPackageCommand::hash computes the SHA-256 of the command's atom
\* on its first call and never again, and every call returns that digest.
C21_CommandHashOnce ==
    \A i \in 1..Len(binary_package.commands) :
        /\ sha256_calls[i] <= 1
        /\ sha256_calls[i] = 1 <=> \E k \in 1..Len(hashed) : hashed[k].of = i
        /\ \A k \in 1..Len(hashed) :
              hashed[k].of = i =>
                  hashed[k].value = [sha256 |-> binary_package.commands[i].atom]

\* A command whose hash was asked for three times.
C21_Witness ==
    \E i \in 1..Len(binary_package.commands) :
        /\ Cardinality({k \in 1..Len(hashed) : hashed[k].of = i}) = 3
        /\ sha256_calls[i] = 1

\* The digest the package hash is said to be.
EntrypointNamed ==
    IF binary_package.entrypoint_cmd = <<>> THEN {}
    ELSE {i \in 1..Len(binary_package.commands) :
            binary_package.commands[i].name = binary_package.entrypoint_cmd[1]}

PackageHashSaid ==
    IF EntrypointNamed # {}
    THEN LET first == CHOOSE i \in EntrypointNamed : \A k \in EntrypointNamed : i <= k
         IN  [sha256 |-> binary_package.commands[first].atom]
    ELSE [sha256 |-> IF binary_package.package_name = "p" THEN <<112>> ELSE <<80>>]

\* C22: BinaryPackage::hash is the SHA-256 of the atom of the command that
\* entrypoint_cmd names, and the SHA-256 of the package name when there is no
\* entrypoint_cmd or it names no command of the package.
C22_PackageHash ==
    \A k \in 1..Len(hashed) :
        hashed[k].of = 0 => hashed[k].value = PackageHashSaid

\* The package hash was taken with an entrypoint that names a command whose
\* atom differs from the package name, and with one that names no command.
C22_Witness ==
    /\ \E k \in 1..Len(hashed) : hashed[k].of = 0
    /\ EntrypointNamed # {}
    /\ PackageHashSaid # [sha256 |-> <<112>>]

C22_WitnessNoCommand ==
    /\ \E k \in 1..Len(hashed) : hashed[k].of = 0
    /\ binary_package.entrypoint_cmd # <<>>
    /\ EntrypointNamed = {}

\* The command of a package that a name stands for: the first of that name.
CommandOf(pkg, name) ==
    LET at == {i \in 1..Len(pkg.commands) : pkg.commands[i].name = name}
    IN  pkg.commands[CHOOSE i \in at : \A k \in at : i <= k]
Accepting(metadata) == {i \in 1..3 : Runners[i] \in metadata.runner}

C23_WitnessNone ==
    /\ run.op = "execute_webc"
    /\ run.tried = Runners
    /\ run.ran = <<>>

\* The name of the command that the rule of C24 chooses, if it chooses one.
Chosen(entrypoint, pkg) ==
    IF entrypoint # <<>> THEN entrypoint
    ELSE IF pkg.entrypoint_cmd # <<>> THEN pkg.entrypoint_cmd
    ELSE IF Len(pkg.commands) = 1 THEN <<pkg.commands[1].name>>
    ELSE <<>>

\* C24: the command run is the explicit entrypoint if given, else the
\* package's entrypoint_cmd if set, else the only command of a package that has
\* exactly one; with no entrypoint and no command, or two or more commands,
\* the call is an error and nothing is run. A command that is run is the one
\* so chosen.
C24_Entrypoint ==
    run.op = "execute_webc" =>
        LET chosen == Chosen(run.args[1], run.args[2])
        IN  /\ \A i \in 1..Len(run.ran) : <<run.ran[i][2]>> = chosen
            /\ chosen = <<>> => (run.ran = <<>> /\ run.tried = <<>> /\ ~run.result.ok)
            /\ (/\ chosen # <<>>
                /\ run.args[3].ok
                /\ \E i \in 1..Len(run.args[2].commands) :
                      run.args[2].commands[i].name = chosen[1]
                /\ CommandOf(run.args[2], chosen[1]).metadata.runner # {})
               => Len(run.ran) = 1

\* The only command of a package without entrypoint_cmd was run, no
\* entrypoint being given.
C24_Witness ==
    /\ run.op = "execute_webc"
    /\ run.args[1] = <<>>
    /\ run.args[2].entrypoint_cmd = <<>>
    /\ Len(run.args[2].commands) = 1
    /\ Len(run.ran) = 1

\* Two commands and no entrypoint: an error.
C24_WitnessTwo ==
    /\ run.op = "execute_webc"
    /\ run.args[1] = <<>>
    /\ run.args[2].entrypoint_cmd = <<>>
    /\ Len(run.args[2].commands) = 2
    /\ ~run.result.ok

\* Whether the first bytes of a file are a magic number.
HasMagic(file, magic) ==
    /\ Len(file.head) >= Len(magic)
    /\ \A i \in 1..Len(magic) : file.head[i] = magic[i]

\* C25: from_file classifies a file that opens by the content of its first
\* bytes (Wasm magic, then webc magic, then artifact magic), and only when no
\* magic matches by its extension (.wat, .wasm, .wasmu, .webc); a file
\* matching neither is an error.
C25_ContentBeforeExtension ==
    (run.op = "from_file" /\ run.args[2].opens) =>
        LET file == run.args[2]
        IN  IF HasMagic(file, <<0, 97, 115, 109>>)
            THEN run.result = [ok |-> TRUE, v |-> "WebAssemblyBinary"]
            ELSE IF HasMagic(file, <<0, 119, 101, 98, 99>>)
            THEN run.result = [ok |-> TRUE, v |-> "LocalWebc"]
            ELSE IF HasMagic(file, ArtifactMagic)
            THEN run.result = [ok |-> TRUE, v |-> "Artifact"]
            ELSE IF file.extension = <<"wat">>
            THEN run.result = [ok |-> TRUE, v |-> "Wat"]
            ELSE IF file.extension = <<"wasm">>
            THEN run.result = [ok |-> TRUE, v |-> "WebAssemblyBinary"]
            ELSE IF file.extension = <<"webc">>
            THEN run.result = [ok |-> TRUE, v |-> "LocalWebc"]
            ELSE IF file.extension = <<"wasmu">>
            THEN run.result.ok
            ELSE ~run.result.ok

\* Whether an error of a chain carries a WASI exit code.
Carries(error) == error.exit_code # <<>>

\* C26: the code the run command exits with is 0 when execution succeeded,
\* the raw exit code of the first error of the chain that carries one when
\* there is such an error, and 1 otherwise.
C26_ExitCode ==
    run.op = "exit_with_wasi_exit_code" =>
        IF run.args.ok THEN run.result = 0
        ELSE LET errors == run.args.v
                 carrying == {i \in 1..Len(errors) : Carries(errors[i])}
             IN  IF carrying = {} THEN run.result = 1
                 ELSE run.result =
                          errors[CHOOSE i \in carrying :
                                   \A k \in carrying : i <= k].exit_code[1].n

\* The run ended with the exit code 42 carried by the source of an error
\* that carries none.
C26_Witness ==
    /\ run.op = "exit_with_wasi_exit_code"
    /\ ~run.args.ok
    /\ Len(run.args.v) = 2
    /\ ~Carries(run.args.v[1])
    /\ Carries(run.args.v[2])
    /\ run.result = 42

\* C27: MonitoringRuntime returns what the wrapped runtime returns for
\* networking, task_manager, module_cache, engine, new_store, http_client and
\* tty, and its source and package loader return the result of the wrapped
\* runtime's source and package loader for query, load and load_package_tree.
C27_MonitoringForwards ==
    /\ run.op \in Capabilities => run.result = run.args.runtime[run.op]
    /\ run.op = "query" => run.result = run.args[1].runtime.source[run.args[2]]
    /\ run.op = "load" => run.result = run.args[1].runtime.load
    /\ run.op = "load_package_tree" =>
           (/\ run.result = run.args[1].runtime.load_package_tree
            /\ run.progress = run.args[1].progress)

\* A query through the monitoring source that the wrapped source answers
\* with summaries.
C27_Witness ==
    /\ run.op = "query"
    /\ run.result.ok
    /\ run.progress = "Looking up"

\* The preopen list of a call: the pieces between line feeds and carriage
\* returns that are not empty.
HasPreopens(call) == \E i \in 1..Len(call.preopen) : call.preopen[i] \notin {"LF", "CR"}

\* C28: a proc_spawn call whose arguments can be read and that asks for chroot
\* or gives a non-empty preopen list returns Notsup, spawns no process, adds no
\* child to the parent's children and writes nothing to ret_handles.
C28_NotsupNoChild ==
    [][(spawn'.call.readable /\ (spawn'.call.chroot \/ HasPreopens(spawn'.call)))
         => /\ spawn'.result = "Notsup"
            /\ spawn'.spawned = spawn.spawned
            /\ spawn'.children = spawn.children
            /\ spawn'.ret_handles = spawn.ret_handles]_vars

\* C29: with a non-empty chain, every operator that read_operator returns
\* was pushed by the last stage of the chain, also in the calls made after a
\* call that returned a middleware error.
C29_ReturnedByLastStage ==
    chain # <<>> =>
        \A p \in At("ret") : ~events[p].err => events[p].by = Len(chain)

\* The locals of the function that the header of the body declares: for
\* each declaration in order, as many copies of its type as its count.
DeclaredCount == IF data = <<>> THEN 0 ELSE data[1].n
RECURSIVE LocalsDeclared(_)
LocalsDeclared(n) ==
    IF n = 0 THEN <<>>
    ELSE LocalsDeclared(n - 1) \o [k \in 1..data[2 * n].n |-> data[2 * n + 1].s]

\* C30: the locals passed to every locals_info call are the complete locals
\* of the function: count_i copies of ty_i for each declaration read, in
\* declaration order, and none when the function declares no locals.
C30_LocalsComplete ==
    \A p \in At("info") : events[p].ls = LocalsDeclared(DeclaredCount)

\* A stage was passed the locals of two declarations of different types.
C30_Witness ==
    \E p \in At("info") : events[p].ls = <<"F64", "F64", "I32">>

\* A stage was passed no locals, the function declaring none.
C30_WitnessNone ==
    \E p \in At("info") : events[p].ls = <<>> /\ DeclaredCount = 0

\* The raw operators that the read_operator call ending at position p read:
\* the raw reads since the call before it ended.
RawsOf(p) ==
    {q \in At("raw") : q < p /\ \A r \in At("ret") : r < p => r < q}
LastOf(ps) == CHOOSE q \in ps : \A r \in ps : r <= q

\* C31: with a chain, a read_operator call reads a further raw operator only
\* when the chain emitted nothing for the one before; it ends with an operator
\* as soon as the chain has emitted one, and with the decoder's error only
\* when the body is read to its end and nothing was emitted. Every call ends.
C31_ReadsUntilEmitted ==
    chain # <<>> =>
        /\ \A p \in At("ret") :
              LET raws == RawsOf(p)
              IN  /\ \A q \in raws : q # LastOf(raws) => Emitted(events[q].at) = {}
                  /\ (~events[p].err /\ raws # {})
                         => Emitted(events[LastOf(raws)].at) # {}
                  /\ (events[p].err /\ events[p].op = "eof")
                         => /\ \A q \in raws : Emitted(events[q].at) = {}
                            /\ Cardinality({q \in At("raw") : q < p}) = Len(RawOps)
        /\ Cardinality(At("ret")) = Len(out)

\* A call read two raw operators, the chain emitting nothing for the first,
\* and returned the operator emitted for the second.
C31_Witness ==
    /\ chain # <<>>
    /\ \E p \in At("ret") : ~events[p].err /\ Cardinality(RawsOf(p)) = 2

\* A call read a raw operator for which nothing was emitted and ended with
\* the decoder's error.
C31_WitnessEof ==
    /\ chain # <<>>
    /\ \E p \in At("ret") : events[p].err /\ events[p].op = "eof" /\ RawsOf(p) # {}

\* What a lookup found at the path, and what is there afterwards.
FoundFresh ==
    LET age == last.now - (last.before.unix_timestamp * 2)
    IN  0 <= age /\ age <= timeout
LeftAt == files[path(last.name)]

\* C32: lookup_cached_query removes the file and reports an error when the
\* file does not parse, removes it and reports a miss when the entry is
\* stale, removes it and reports an error when the entry is fresh and names
\* another package, and leaves the file as it is when it returns the entry.
C32_RemovesBadEntries ==
    last.op = "lookup" =>
        /\ last.before.kind = "garbage" => (last.res = "err" /\ LeftAt.kind = "none")
        /\ (last.before.kind = "entry" /\ ~FoundFresh)
               => (last.res = "miss" /\ LeftAt.kind = "none")
        /\ (last.before.kind = "entry" /\ FoundFresh
                /\ last.before.package_name # last.name)
               => (last.res = "err" /\ LeftAt.kind = "none")
        /\ (last.before.kind = "entry" /\ FoundFresh
                /\ last.before.package_name = last.name)
               => (last.res = "hit" /\ LeftAt = last.before)
        /\ last.res = "hit" => LeftAt = last.before

\* A fresh entry of another package was looked up, and removed.
C32_Witness ==
    /\ last.op = "lookup"
    /\ last.before.kind = "entry"
    /\ FoundFresh
    /\ last.before.package_name # last.name
    /\ LeftAt.kind = "none"

\* A stale entry was looked up, and removed.
C32_WitnessStale ==
    /\ last.op = "lookup"
    /\ last.before.kind = "entry"
    /\ ~FoundFresh
    /\ last.res = "miss"
    /\ LeftAt.kind = "none"

\* A step is a query of the registry for a package whose request failed: no
\* reply, a status that is not 2xx, or a body that does not deserialize.
RequestFailed ==
    /\ now' = now
    /\ answer'.package.kind = "Registry"
    /\ answer'.looked # "hit"
    /\ \/ answer'.reply.status = 0
       \/ answer'.reply.status \div 100 # 2
       \/ answer'.reply.body.json # "object"

\* C33: a query whose GraphQL request fails writes no cache entry: the file
\* of the package is as it was or was removed by the lookup, and no file is
\* written.
C33_NoWriteOnFailure ==
    [][RequestFailed =>
          /\ written' = written
          /\ \A f \in Paths : files'[f] = files[f] \/ files'[f].kind = "none"]_vars

\* A request was sent with a cache configured and failed on a body that does
\* not deserialize; the cache was not updated.
C33_Witness ==
    /\ cache
    /\ answer.package.kind = "Registry"
    /\ answer.reply.status = 200
    /\ ~answer.response.ok
    /\ answer.updated = "none"

\* C34: the archived_versions of a NoMatches are the archived versions of the
\* response whose semver parses, in the order of the response, whether or
\* not they satisfy the version constraint of the specifier; an archived
\* version whose semver does not parse is not among them.
C34_ArchivedVersions ==
    (GotPackage /\ answer.result.kind = "NoMatches") =>
        LET versions == answer.response.v.versions
            listed == answer.result.archived_versions
        IN  /\ listed = ArchivedOf(versions)
            /\ \A i \in 1..Len(versions) :
                  (versions[i].is_archived /\ Version_parse(versions[i].version).ok)
                      => InSeq(Version_parse(versions[i].version).v, listed)
            /\ Len(listed) =
                  Cardinality({i \in 1..Len(versions) :
                      versions[i].is_archived /\ Version_parse(versions[i].version).ok})
C34_Witness ==
    /\ GotPackage
    /\ answer.result.kind = "NoMatches"
    /\ answer.package.version = "^1"
    /\ answer.result.archived_versions = <<(<<2, 0, 0>>)>>
    /\ Len(answer.response.v.versions) = 2
    /\ \E i \in 1..2 :
          LET v == answer.response.v.versions[i]
          IN  v.is_archived /\ ~Version_parse(v.version).ok

\* The calls from_registry makes, in the order of its code.
StepOrder == <<"latest", "load", "resolve", "load_package_tree">>

\* C35: from_registry makes its calls in the order source.latest, load of
\* the root summary, dependency resolution, load_package_tree, each on what
\* the earlier ones returned; once a call has failed no later call is made
\* and from_registry returns an error, and it returns a package only when
\* all four have succeeded.
C35_StepsInOrder ==
    LET steps == loading.steps
        n == Len(steps)
    IN  loading.pc # "none" =>
          /\ n <= 4
          /\ \A i \in 1..n : steps[i].step = StepOrder[i]
          /\ \A i \in 1..(n - 1) : steps[i].result.ok
          /\ n >= 2 => steps[2].args = <<steps[1].result.v>>
          /\ n >= 4 => steps[4].args = <<steps[2].result.v, steps[3].result.v>>
          /\ (n > 0 /\ ~steps[n].result.ok) =>
                loading.pc = "returned" /\ ~loading.result.ok
          /\ loading.pc = "returned" =>
                (loading.result.ok <=> (n = 4 /\ steps[4].result.ok))
          /\ loading.pc # "returned" => loading.pc = StepOrder[n + 1]
C35_Witness ==
    /\ loading # <<>>
    /\ loading.pc = "returned"
    /\ Len(loading.steps) = 2
    /\ ~loading.result.ok
    /\ loading.steps[1].result.ok

\* C36: a proc_spawn call whose proc_spawn_internal returns an error leaves
\* the parent as it was: no handle was added to owned_handles and no child
\* to children.
C36_ErrorLeavesParent ==
    [][(/\ spawn'.call.readable
        /\ ~spawn'.call.chroot
        /\ ~proc_spawn_internal(spawn, spawn'.call, split(spawn'.call.preopen)).result.ok)
         => /\ spawn'.owned_handles = spawn.owned_handles
            /\ spawn'.children = spawn.children]_vars

\* The fd the last socket call created, when it created one: the last of the
\* table.
CreatedFd == sockets.fds[Len(sockets.fds)]
CreatedOne(op) ==
    /\ sockets.last.op = op
    /\ sockets.last.result \in {"Success", "Memviolation"}

\* C37: the fd that sock_accept creates carries NONBLOCK exactly when the
\* fd_flags of the caller or the flags of the listening fd contain NONBLOCK,
\* and no other flag; the accept was non-blocking under the same condition;
\* and the second new_flags block gives what the first gave.
C37_AcceptedFlags ==
    LET call == sockets.last
        listener == sockets.fds[call.args[1] + 1]
        wanted == "NONBLOCK" \in call.args[2] \/ "NONBLOCK" \in listener.flags
    IN  /\ CreatedOne("sock_accept") =>
              /\ CreatedFd.flags = (IF wanted THEN {"NONBLOCK"} ELSE {})
              /\ call.nonblocking = wanted
              /\ call.first_flags = CreatedFd.flags
              /\ sockets.inodes[CreatedFd.inode].kind = "TcpStream"
        /\ (call.op = "sock_accept" /\ call.result \in {"Again", "Timedout", "Mfile"}) =>
              call.nonblocking = wanted
        /\ (call.op = "sock_accept" /\ call.result = "Again") => wanted
C37_Witness ==
    /\ CreatedOne("sock_accept")
    /\ sockets.last.result = "Success"
    /\ sockets.last.args[2] = {"APPEND"}
    /\ "NONBLOCK" \in sockets.fds[sockets.last.args[1] + 1].flags
    /\ sockets.fds[sockets.memory + 1].flags = {"NONBLOCK"}
    /\ sockets.last.nonblocking

\* The combinations of type and protocol that sock_open is said to refuse.
Refused(ty, pt) ==
    \/ pt = "Tcp" /\ ty # "Stream"
    \/ pt = "Udp" /\ ty # "Dgram"
    \/ ty \notin {"Stream", "Dgram"}

\* C38: sock_open returns Notsup for TCP with a type other than Stream, for
\* UDP with a type other than Dgram and for every type other than Stream and
\* Dgram, and then creates no inode and no fd; when it returns Success it
\* has created one inode, a pre-socket of the given family, type and
\* protocol with no address and no timeout, and one fd for it with empty
\* flags, and has written that fd to ro_sock.
C38_SockOpen ==
    [][(sockets' # sockets /\ sockets'.last.op = "sock_open") =>
        LET call == sockets'.last
            ty == call.args[2]
            pt == call.args[3]
            fd == Len(sockets.fds)
        IN  /\ Refused(ty, pt) =>
                  /\ call.result = "Notsup"
                  /\ sockets'.inodes = sockets.inodes
                  /\ sockets'.fds = sockets.fds
                  /\ sockets'.memory = sockets.memory
            /\ call.result = "Notsup" => Refused(ty, pt)
            /\ call.result = "Success" =>
                  /\ sockets'.fds =
                        Append(sockets.fds, Fd("all_socket", {}, Len(sockets.inodes) + 1))
                  /\ sockets'.inodes =
                        Append(sockets.inodes,
                               [kind |-> "PreSocket", family |-> call.args[1],
                                ty |-> ty, pt |-> pt, addr |-> <<>>,
                                write_timeout |-> <<>>, read_timeout |-> <<>>,
                                accept_timeout |-> <<>>, connect_timeout |-> <<>>])
                  /\ sockets'.memory = fd]_vars
C38_Witness ==
    /\ sockets.last.op = "sock_open"
    /\ sockets.last.result = "Notsup"
    /\ sockets.last.args[2] = "Dgram"
    /\ sockets.last.args[3] = "Tcp"
    /\ Len(sockets.fds) = 3
    /\ sockets.inodes[3].kind = "PreSocket"
    /\ sockets.memory = 2

\* C39: a thread_join on the id of a thread of the process returns Success
\* only once that thread has exited, having waited inside the call for it;
\* a thread_join on an id that names no thread of the process returns in
\* the call itself, without waiting, and returns Success unless a pending
\* signal ends the caller.
C39_JoinWaits ==
    \A i \in 1..Len(threads.joins) :
        LET j == threads.joins[i]
        IN  /\ (j.result = "Success" /\ j.existed) => (j.exited /\ j.waited)
            /\ ~j.existed => ~j.waited
            /\ (~j.existed /\ j.result # "Exit") => j.result = "Success"
C39_Witness ==
    /\ Len(threads.joins) = 2
    /\ threads.joins[1] = Joined(1, 3, "Success", FALSE, FALSE, FALSE)
    /\ threads.joins[2] = Joined(1, 2, "Success", TRUE, TRUE, TRUE)

====
